---- MODULE Spec2Model ----
(***************************************************************************)
(* pg_hexedit: decoding of PostgreSQL heap / b-tree pages into a stream of *)
(* wxHexEditor tags.  The model follows src/pg_hexedit.c: the run loop of  *)
(* EmitXmlFile, the classifier GetSpecialSectionType, the page header and  *)
(* item-id decoder EmitXmlPageHeader, the tuple decoders and the special   *)
(* section decoder.  The page buffer is modelled byte for byte; every      *)
(* multi-byte field is decoded little-endian from the buffer, as the       *)
(* struct overlays of the C code do.                                       *)
(***************************************************************************)
EXTENDS Integers, Sequences, FiniteSets, TLC

(***************************************************************************)
(* Bounds of the model.                                                    *)
(***************************************************************************)
\* most item pointers a generated page carries
MaxItems == 2
\* most blocks the input file holds
MaxBlocks == 2

(***************************************************************************)
(* Program constants (pg_hexedit.c and the PostgreSQL 11 headers it        *)
(* includes, 64-bit build: MAXIMUM_ALIGNOF = 8).                           *)
(***************************************************************************)
SEQUENCE_MAGIC == 5911
EOF_ENCOUNTERED == -1
\* 0xFFFFFFFF as a uint32 residue (see U32)
UINT_MAX == -1
BLCKSZ == 8192
\* sizeof(PageHeaderData) == offsetof(PageHeaderData, pd_linp) == SizeOfPageHeaderData
SizeOfPageHeaderData == 24
SizeOfItemIdData == 4
PG_PAGE_LAYOUT_VERSION == 4
\* offsetof(PageHeaderData, ...)
OffPdChecksum == 8
OffPdFlags == 10
OffPdLower == 12
OffPdUpper == 14
OffPdSpecial == 16
OffPdPagesizeVersion == 18
OffPdPruneXid == 20
\* offsetof(HeapTupleHeaderData, ...)
OffTInfomask2 == 18
OffTInfomask == 20
OffTHoff == 22
OffTBits == 23
\* offsetof(IndexTupleData, t_info)
OffTInfo == 6
\* MAXALIGN(sizeof(...)) of the opaque structs
SizeOfBTPageOpaque == 16
SizeOfHashPageOpaque == 16
SizeOfGISTPageOpaque == 16
SizeOfSpGistPageOpaque == 8
SizeOfGinPageOpaque == 8
\* MAXALIGN(sizeof(uint32))
MaxAlignUint32 == 8
\* offsetof(BTPageOpaqueData, ...)
OffBtpoNext == 4
OffBtpoLevel == 8
OffBtpoFlags == 12
OffBtpoCycleid == 14
MAX_BT_CYCLE_ID == 65407
HASHO_PAGE_ID == 65408
GIST_PAGE_ID == 65409
SPGIST_PAGE_ID == 65410
BTP_LEAF == 1
BTP_ROOT == 2
BTP_META == 8
LP_UNUSED == 0
LP_NORMAL == 1
LP_REDIRECT == 2
LP_DEAD == 3
HEAP_HASNULL == 1
HEAP_HASOID == 8
HEAP_MOVED_OFF == 16384
HEAP_NATTS_MASK == 2047
INDEX_SIZE_MASK == 8191

(***************************************************************************)
(* Machine arithmetic.                                                     *)
(***************************************************************************)
\* A uint32 is held as its residue modulo 2^32 in [-2^31, 2^31): a value v
\* below 2^31 is v itself, a value v from 2^31 on is v - 2^32, so that 0 - 1
\* is -1 (0xFFFFFFFF).  The sums of the model stay inside that interval,
\* where the residue of a sum is the sum of the residues.  ULt is the
\* unsigned comparison of two residues.
U32(x) == IF x > 2147483647 THEN x - 2147483647 - 2147483647 - 2 ELSE x

ULt(a, b) == IF (a < 0) = (b < 0) THEN a < b ELSE b < 0

\* x & b # 0 for a single-bit mask b
HasBit(x, b) == (x \div b) % 2 = 1

\* MAXALIGN on a build with 8-byte maximum alignment
MAXALIGN(x) == ((x + 7) \div 8) * 8

(***************************************************************************)
(* The page buffer: malloc(blockSize) bytes, held as a sequence, byte off  *)
(* of the buffer being buf[off + 1].  A read past the allocation is        *)
(* undefined; it yields the byte g, which the reading action picks         *)
(* nondeterministically.                                                   *)
(***************************************************************************)
GarbageBytes == {0, 255}

Byte(buf, g, off) == IF off >= 0 /\ off < Len(buf) THEN buf[off + 1] ELSE g

Rd16(buf, g, off) == Byte(buf, g, off) + 256 * Byte(buf, g, off + 1)

\* a little-endian uint32, as a residue
Rd32(buf, g, off) ==
    Rd16(buf, g, off)
    + 65536 * (IF Rd16(buf, g, off + 2) >= 32768
               THEN Rd16(buf, g, off + 2) - 65536
               ELSE Rd16(buf, g, off + 2))

(***************************************************************************)
(* Page, item-id and tuple accessors (bufpage.h, itemid.h, htup_details.h, *)
(* itup.h macros as the program uses them).                                *)
(***************************************************************************)
PdFlags(buf, g) == Rd16(buf, g, OffPdFlags)
PdLower(buf, g) == Rd16(buf, g, OffPdLower)
PdUpper(buf, g) == Rd16(buf, g, OffPdUpper)
PdSpecial(buf, g) == Rd16(buf, g, OffPdSpecial)

\* pd_pagesize_version & 0xFF00
PageGetPageSize(buf, g) == (Rd16(buf, g, OffPdPagesizeVersion) \div 256) * 256

\* pd_pagesize_version & 0x00FF
PageGetPageLayoutVersion(buf, g) == Rd16(buf, g, OffPdPagesizeVersion) % 256

\* (uint16) (PageGetPageSize(page) - pd_special)
PageGetSpecialSize(buf, g) == (PageGetPageSize(buf, g) - PdSpecial(buf, g)) % 65536

PageGetMaxOffsetNumber(buf, g) ==
    IF PdLower(buf, g) <= SizeOfPageHeaderData
    THEN 0
    ELSE (PdLower(buf, g) - SizeOfPageHeaderData) \div SizeOfItemIdData

\* &pd_linp[offset - 1], as a byte offset into the page
PageGetItemId(offset) == SizeOfPageHeaderData + SizeOfItemIdData * (offset - 1)

\* ItemIdData is the bit field (lp_off:15, lp_flags:2, lp_len:15) of a
\* uint32; TLA+'s % and \div are floored, so they read the fields of a
\* residue as the masks and shifts read them of the word
ItemIdWord(buf, g, offset) == Rd32(buf, g, PageGetItemId(offset))
ItemIdGetOffset(w) == w % 32768
ItemIdGetFlags(w) == (w \div 32768) % 4
ItemIdGetLength(w) == (w \div 131072) % 32768

\* t_info & INDEX_SIZE_MASK of the index tuple at byte `at`
IndexTupleSize(buf, g, at) == Rd16(buf, g, at + OffTInfo) % (INDEX_SIZE_MASK + 1)

\* t_infomask & HEAP_MOVED (HEAP_MOVED_OFF | HEAP_MOVED_IN, bits 14 and 15)
HeapMoved(infomask) == (infomask \div HEAP_MOVED_OFF) % 4 # 0

(***************************************************************************)
(* GetSpecialSectionType.  rc is the returned type; deref tells whether    *)
(* the call read the bytes at `special` or the trailing two bytes, ptype.  *)
(***************************************************************************)
SpecialTypes ==
    {"SPEC_SECT_NONE", "SPEC_SECT_SEQUENCE", "SPEC_SECT_INDEX_BTREE",
     "SPEC_SECT_INDEX_HASH", "SPEC_SECT_INDEX_GIST", "SPEC_SECT_INDEX_GIN",
     "SPEC_SECT_INDEX_SPGIST", "SPEC_SECT_ERROR_UNKNOWN",
     "SPEC_SECT_ERROR_BOUNDARY"}

SpecRes(code, touched) == [rc |-> code, deref |-> touched]

\* the page id tested before the sequence magic
SpecialOfAlignedWordIdFirst(specialValue, specialSize, ptype) ==
    IF specialSize = SizeOfSpGistPageOpaque /\ ptype = SPGIST_PAGE_ID
    THEN "SPEC_SECT_INDEX_SPGIST"
    ELSE IF specialValue = SEQUENCE_MAGIC
    THEN "SPEC_SECT_SEQUENCE"
    ELSE IF specialSize = SizeOfGinPageOpaque
    THEN "SPEC_SECT_INDEX_GIN"
    ELSE "SPEC_SECT_ERROR_UNKNOWN"

\* lines 633-641: a special section of MAXALIGN(sizeof(uint32)) bytes on a
\* fully read block; specialValue is the word at `special`
SpecialOfAlignedWord(specialValue, specialSize, ptype) ==
    IF specialValue = SEQUENCE_MAGIC
    THEN "SPEC_SECT_SEQUENCE"
    ELSE IF specialSize = SizeOfSpGistPageOpaque /\ ptype = SPGIST_PAGE_ID
    THEN "SPEC_SECT_INDEX_SPGIST"
    ELSE IF specialSize = SizeOfGinPageOpaque
    THEN "SPEC_SECT_INDEX_GIN"
    ELSE "SPEC_SECT_ERROR_UNKNOWN"

\* the cycle id compared with < instead of <=
SpecialOfPageIdStrict(ptype, specialSize) ==
    IF ptype < MAX_BT_CYCLE_ID /\ specialSize = SizeOfBTPageOpaque
    THEN "SPEC_SECT_INDEX_BTREE"
    ELSE IF ptype = HASHO_PAGE_ID /\ specialSize = SizeOfHashPageOpaque
    THEN "SPEC_SECT_INDEX_HASH"
    ELSE IF ptype = GIST_PAGE_ID /\ specialSize = SizeOfGISTPageOpaque
    THEN "SPEC_SECT_INDEX_GIST"
    ELSE "SPEC_SECT_ERROR_UNKNOWN"

\* lines 664-674: b-tree, hash and GiST share a size; the page id decides
SpecialOfPageId(ptype, specialSize) ==
    IF ptype <= MAX_BT_CYCLE_ID /\ specialSize = SizeOfBTPageOpaque
    THEN "SPEC_SECT_INDEX_BTREE"
    ELSE IF ptype = HASHO_PAGE_ID /\ specialSize = SizeOfHashPageOpaque
    THEN "SPEC_SECT_INDEX_HASH"
    ELSE IF ptype = GIST_PAGE_ID /\ specialSize = SizeOfGISTPageOpaque
    THEN "SPEC_SECT_INDEX_GIST"
    ELSE "SPEC_SECT_ERROR_UNKNOWN"

\* lines 612-677: specialOffset passed the boundary test
\* the page id looked at without asking whether the block was read whole
SpecialBySizeAnyLength(buf, g, btf, bs, specialOffset) ==
    LET ptype == Rd16(buf, g, bs - 2)
        specialSize == bs - specialOffset
    IN  IF specialSize = 0
        THEN SpecRes("SPEC_SECT_NONE", FALSE)
        ELSE IF specialSize = MaxAlignUint32
        THEN IF btf = bs
             THEN SpecRes(SpecialOfAlignedWord(Rd32(buf, g, specialOffset),
                                               specialSize, ptype), TRUE)
             ELSE SpecRes("SPEC_SECT_ERROR_UNKNOWN", FALSE)
        ELSE IF specialSize = SizeOfSpGistPageOpaque /\ btf = bs /\ ptype = SPGIST_PAGE_ID
        THEN SpecRes("SPEC_SECT_INDEX_SPGIST", TRUE)
        ELSE IF specialSize = SizeOfGinPageOpaque
        THEN SpecRes("SPEC_SECT_INDEX_GIN", specialSize = SizeOfSpGistPageOpaque /\ btf = bs)
        ELSE IF specialSize > 2
        THEN SpecRes(SpecialOfPageId(ptype, specialSize), TRUE)
        ELSE SpecRes("SPEC_SECT_ERROR_UNKNOWN", FALSE)

SpecialBySize(buf, g, btf, bs, specialOffset) ==
    LET ptype == Rd16(buf, g, bs - 2)
        specialSize == bs - specialOffset
    IN  IF specialSize = 0
        THEN SpecRes("SPEC_SECT_NONE", FALSE)
        ELSE IF specialSize = MaxAlignUint32
        THEN IF btf = bs
             THEN SpecRes(SpecialOfAlignedWord(Rd32(buf, g, specialOffset),
                                               specialSize, ptype), TRUE)
             ELSE SpecRes("SPEC_SECT_ERROR_UNKNOWN", FALSE)
        ELSE IF specialSize = SizeOfSpGistPageOpaque /\ btf = bs /\ ptype = SPGIST_PAGE_ID
        THEN SpecRes("SPEC_SECT_INDEX_SPGIST", TRUE)
        ELSE IF specialSize = SizeOfGinPageOpaque
        THEN SpecRes("SPEC_SECT_INDEX_GIN", specialSize = SizeOfSpGistPageOpaque /\ btf = bs)
        ELSE IF specialSize > 2 /\ btf = bs
        THEN SpecRes(SpecialOfPageId(ptype, specialSize), TRUE)
        ELSE SpecRes("SPEC_SECT_ERROR_UNKNOWN", FALSE)

\* the boundary test without its partial-block disjunct
SpecialOffsetOutOfBoundsFullOnly(specialOffset, btf, bs) ==
    specialOffset = 0 \/ specialOffset > bs

\* lines 598-608: is the special offset on the block or the partial block?
SpecialOffsetOutOfBounds(specialOffset, btf, bs) ==
    specialOffset = 0 \/ specialOffset > bs \/ specialOffset > btf

GetSpecialSectionType(buf, g, btf, bs) ==
    IF btf > SizeOfPageHeaderData
    THEN IF SpecialOffsetOutOfBounds(PdSpecial(buf, g), btf, bs)
         THEN SpecRes("SPEC_SECT_ERROR_BOUNDARY", FALSE)
         ELSE SpecialBySize(buf, g, btf, bs, PdSpecial(buf, g))
    ELSE SpecRes("SPEC_SECT_ERROR_UNKNOWN", FALSE)

(***************************************************************************)
(* IsBtreeMetaPage.                                                        *)
(***************************************************************************)
\* a meta page recognised only when its item array is empty
IsBtreeMetaPageEmptyOnly(buf, g, btf, bs) ==
    /\ PageGetSpecialSize(buf, g) = SizeOfBTPageOpaque
    /\ btf = bs
    /\ Rd16(buf, g, PdSpecial(buf, g) + OffBtpoCycleid) <= MAX_BT_CYCLE_ID
    /\ HasBit(Rd16(buf, g, PdSpecial(buf, g) + OffBtpoFlags), BTP_META)
    /\ PageGetMaxOffsetNumber(buf, g) = 0

IsBtreeMetaPage(buf, g, btf, bs) ==
    /\ PageGetSpecialSize(buf, g) = SizeOfBTPageOpaque
    /\ btf = bs
    /\ Rd16(buf, g, PdSpecial(buf, g) + OffBtpoCycleid) <= MAX_BT_CYCLE_ID
    /\ HasBit(Rd16(buf, g, PdSpecial(buf, g) + OffBtpoFlags), BTP_META)

(***************************************************************************)
(* Tags.  A tag records what one <TAG> element prints: its id, its start   *)
(* and end offsets, and what its text is made of (block, item number or    *)
(* level, name, and the decoded value the text shows).  `kind` names the   *)
(* routine the tag comes from.  The operators below build tags with id 0;  *)
(* Stamp gives them the ids of the running tagNumber, as the               *)
(* printf("<TAG id=..>", tagNumber++) of each Emit routine does.           *)
(***************************************************************************)
Tag(kind, blkno, slot, lvl, name, val, relfileOff, relfileOffEnd) ==
    [id |-> 0, start |-> relfileOff, end |-> relfileOffEnd, blk |-> blkno,
     kind |-> kind, name |-> name, slot |-> slot, level |-> lvl, val |-> val]

EmitXmlTag(kind, blkno, lvl, name, val, relfileOff, relfileOffEnd) ==
    Tag(kind, blkno, 0, lvl, name, val, relfileOff, relfileOffEnd)

EmitXmlTupleTag(kind, blkno, offset, name, val, relfileOff, relfileOffEnd) ==
    Tag(kind, blkno, offset, UINT_MAX, name, val, relfileOff, relfileOffEnd)

\* end_offset is printed with %lu from (relfileOff + sizeof(ItemIdData)) - 1
EmitXmlItemId(blkno, offset, w, relfileOff) ==
    Tag("itemid", blkno, offset, UINT_MAX, "ItemId", w, relfileOff,
        (relfileOff + SizeOfItemIdData) - 1)

\* a printf that prints tagNumber without the ++
NextTagNumberStuck(tn) == tn

NextTagNumber(tn) == U32(tn + 1)

RECURSIVE Stamp(_, _)
Stamp(protos, tn) ==
    IF protos = <<>>
    THEN <<>>
    ELSE <<[Head(protos) EXCEPT !.id = tn]>> \o Stamp(Tail(protos), NextTagNumber(tn))

RECURSIVE TagNumberAfter(_, _)
TagNumberAfter(protos, tn) ==
    IF protos = <<>> THEN tn ELSE TagNumberAfter(Tail(protos), NextTagNumber(tn))

(***************************************************************************)
(* The decoding context of one page: the buffer, the byte an out-of-bounds *)
(* read yields, and the globals the decoders read.                         *)
(***************************************************************************)
Ctx(buf, g, blkno, pageOff, btf, bs) ==
    [buf |-> buf, g |-> g, blkno |-> blkno, pageOffset |-> pageOff,
     btf |-> btf, bs |-> bs]

Out(ts, rs, exit) == [tags |-> ts, reports |-> rs, exit |-> exit]

(***************************************************************************)
(* GetHeapTupleHeaderFlags: the sanity check of t_hoff (lines 776-802).    *)
(***************************************************************************)
BITMAPLEN(natts) == (natts + 7) \div 8

ComputedHeaderLength(infomask, infomask2) ==
    MAXALIGN(OffTBits
             + (IF HasBit(infomask, HEAP_HASNULL)
                THEN BITMAPLEN(infomask2 % (HEAP_NATTS_MASK + 1)) ELSE 0)
             + (IF HasBit(infomask, HEAP_HASOID) THEN 4 ELSE 0))

(***************************************************************************)
(* EmitXmlHeapTuple: htup is the tuple at page byte `at`.                  *)
(***************************************************************************)
\* the end of "contents" taken as the offset after the tuple, not its last byte
HeapContentsEndExclusive(relfileOffOrig, itemSize) == U32(relfileOffOrig + itemSize)

HeapContentsEnd(relfileOffOrig, itemSize) == U32((relfileOffOrig + itemSize) - 1)

HeapThirdField(infomask) == IF ~HeapMoved(infomask) THEN "t_cid" ELSE "t_xvac"

EmitXmlHeapTuple(c, offset, at, relfileOff, itemSize) ==
    LET infomask2 == Rd16(c.buf, c.g, at + OffTInfomask2)
        infomask == Rd16(c.buf, c.g, at + OffTInfomask)
        t_hoff == Byte(c.buf, c.g, at + OffTHoff)
        F(name, val, from, width) ==
            EmitXmlTupleTag("heap", c.blkno, offset, name, val,
                            U32(relfileOff + from), U32(relfileOff + from + width - 1))
        relfileOffNext == U32(relfileOff + t_hoff)
    IN  Out(<< F("xmin", 0, 0, 4),
               F("xmax", 0, 4, 4),
               F(HeapThirdField(infomask), 0, 8, 4),
               F("t_ctid->bi_hi", 0, 12, 2),
               F("t_ctid->bi_lo", 0, 14, 2),
               F("t_ctid->offsetNumber", 0, 16, 2),
               F("t_infomask2", (infomask2 \div 8192) * 8192, OffTInfomask2, 2),
               F("t_infomask", infomask, OffTInfomask, 2),
               F("t_hoff", 0, OffTHoff, 1),
               EmitXmlTupleTag("heap", c.blkno, offset, "t_bits", 0,
                               U32(relfileOff + OffTBits), U32(relfileOffNext - 1)),
               EmitXmlTupleTag("heap", c.blkno, offset, "contents", 0,
                               relfileOffNext, HeapContentsEnd(relfileOff, itemSize)) >>,
            IF ComputedHeaderLength(infomask, infomask2) # t_hoff
            THEN {"HeaderLengthMismatch"} ELSE {},
            FALSE)

(***************************************************************************)
(* EmitXmlIndexTuple: tuple is the index tuple at page byte `at`.          *)
(***************************************************************************)
\* t_info used without INDEX_SIZE_MASK
IndexContentsNextUnmasked(c, at, relfileOffOrig) ==
    U32(relfileOffOrig + Rd16(c.buf, c.g, at + OffTInfo))

IndexContentsNext(c, at, relfileOffOrig) ==
    U32(relfileOffOrig + IndexTupleSize(c.buf, c.g, at))

\* a "contents" tag printed also for a tuple that ends where its header ends
IndexHasContentsInclusive(contentsOff, relfileOffNext) ==
    ~ULt(relfileOffNext, contentsOff)

\* line 1149: relfileOff < relfileOffNext
IndexHasContents(contentsOff, relfileOffNext) == ULt(contentsOff, relfileOffNext)

EmitXmlIndexTuple(c, offset, at, relfileOff) ==
    LET F(name, from, width) ==
            EmitXmlTupleTag("index", c.blkno, offset, name, 0,
                            U32(relfileOff + from), U32(relfileOff + from + width - 1))
        contentsOff == U32(relfileOff + OffTInfo + 2)
        relfileOffNext == IndexContentsNext(c, at, relfileOff)
    IN  Out(<< F("t_tid->bi_hi", 0, 2),
               F("t_tid->bi_lo", 2, 2),
               F("t_tid->offsetNumber", 4, 2),
               F("t_info", OffTInfo, 2) >>
            \o (IF IndexHasContents(contentsOff, relfileOffNext)
                THEN << EmitXmlTupleTag("index", c.blkno, offset, "contents", 0,
                                        contentsOff, U32(relfileOffNext - 1)) >>
                ELSE <<>>),
            {}, FALSE)

(***************************************************************************)
(* EmitXmlTuples.                                                          *)
(***************************************************************************)
\* lines 1451-1453
ItemBeyondBlock(formatAs, itemOffset, itemSize, btf, bs) ==
    /\ formatAs = "ITEM_HEAP"
    /\ (itemOffset + itemSize > bs \/ itemOffset + itemSize > btf)

\* lines 1462-1482: one item
\* a row tuple decoded only for an LP_NORMAL item pointer
EmitXmlItemNormalOnly(c, formatAs, offset, itemOffset, itemSize) ==
    IF formatAs = "ITEM_HEAP"
    THEN IF itemSize # 0
            /\ ItemIdGetFlags(ItemIdWord(c.buf, c.g, offset)) = LP_NORMAL
         THEN EmitXmlHeapTuple(c, offset, itemOffset, U32(c.pageOffset + itemOffset), itemSize)
         ELSE Out(<<>>, {}, FALSE)
    ELSE EmitXmlIndexTuple(c, offset, itemOffset, U32(c.pageOffset + itemOffset))

EmitXmlItem(c, formatAs, offset, itemOffset, itemSize) ==
    IF formatAs = "ITEM_HEAP"
    THEN IF itemSize # 0
         THEN EmitXmlHeapTuple(c, offset, itemOffset, U32(c.pageOffset + itemOffset), itemSize)
         ELSE Out(<<>>, {}, FALSE)
    ELSE EmitXmlIndexTuple(c, offset, itemOffset, U32(c.pageOffset + itemOffset))

\* lines 1437-1483: the loop over the items, from item `offset` on
RECURSIVE EmitXmlItems(_, _, _, _)
EmitXmlItems(c, formatAs, offset, maxOffset) ==
    IF offset > maxOffset
    THEN Out(<<>>, {}, FALSE)
    ELSE LET w == ItemIdWord(c.buf, c.g, offset)
             itemSize == ItemIdGetLength(w)
             itemOffset == ItemIdGetOffset(w)
         IN  IF ItemBeyondBlock(formatAs, itemOffset, itemSize, c.btf, c.bs)
             THEN Out(<<>>, {"ItemBeyondBlock"}, TRUE)
             ELSE LET here == EmitXmlItem(c, formatAs, offset, itemOffset, itemSize)
                      rest == EmitXmlItems(c, formatAs, offset + 1, maxOffset)
                  IN  Out(here.tags \o rest.tags, here.reports \cup rest.reports, rest.exit)

FormatAs(special) ==
    IF special = "SPEC_SECT_INDEX_BTREE" THEN "ITEM_INDEX" ELSE "ITEM_HEAP"

\* an empty block reported without exit()
EmptyBlockReturns == Out(<<>>, {"EmptyBlock"}, FALSE)

\* lines 1402-1407: "Empty block - no items listed", exit(1)
EmptyBlockExit == Out(<<>>, {"EmptyBlock"}, TRUE)

EmitXmlTuples(c, special) ==
    LET maxOffset == PageGetMaxOffsetNumber(c.buf, c.g)
    IN  IF IsBtreeMetaPage(c.buf, c.g, c.btf, c.bs)
        THEN Out(<<>>, {}, FALSE)
        ELSE IF maxOffset = 0
        THEN EmptyBlockExit
        ELSE IF maxOffset < 0 \/ maxOffset > c.bs
        THEN Out(<<>>, {"ItemIndexCorrupt"}, TRUE)
        ELSE IF special \in {"SPEC_SECT_INDEX_HASH", "SPEC_SECT_INDEX_GIST",
                                 "SPEC_SECT_INDEX_GIN", "SPEC_SECT_INDEX_SPGIST"}
        THEN Out(<<>>, {}, TRUE)
        ELSE EmitXmlItems(c, FormatAs(special), 1, maxOffset)

(***************************************************************************)
(* EmitXmlPageHeader.  verify: BLOCK_CHECKSUMS is set; checksumOk: the     *)
(* outcome of comparing pg_checksum_page() with pd_checksum.               *)
(***************************************************************************)
\* the threshold of the header sanity check (line 1338) used for the
\* truncation test
HeaderTruncatedLegacy(btf) == btf < SizeOfPageHeaderData - SizeOfItemIdData

\* line 1189: bytesToFormat < offsetof(PageHeaderData, pd_linp[0])
HeaderTruncated(btf) == btf < SizeOfPageHeaderData

\* lines 1204-1213: the item array is not fully on the partial block
ItemArrayTruncated(btf, maxOffset) ==
    maxOffset > 0 /\ btf < SizeOfPageHeaderData + maxOffset * SizeOfItemIdData

\* lines 1215-1252
HeaderFieldTags(c, lvl) ==
    LET H(name, val, from, to) ==
            EmitXmlTag("header", c.blkno, lvl, name, val,
                       U32(c.pageOffset + from), U32(c.pageOffset + to - 1))
    IN  << H("LSN", 0, 0, OffPdChecksum),
           H("checksum", 0, OffPdChecksum, OffPdFlags),
           H("pd_flags", PdFlags(c.buf, c.g) % 8, OffPdFlags, OffPdLower),
           H("pd_lower", 0, OffPdLower, OffPdUpper),
           H("pd_upper", 0, OffPdUpper, OffPdSpecial),
           H("pd_special", 0, OffPdSpecial, OffPdPagesizeVersion),
           H("pd_pagesize_version", 0, OffPdPagesizeVersion, OffPdPruneXid),
           H("pd_prune_xid", 0, OffPdPruneXid, SizeOfPageHeaderData) >>

\* lines 1254-1281: the six fields of BTMetaPageData, 4 bytes each
MetaFieldTags(c, lvl) ==
    LET metaStartOffset == U32(c.pageOffset + MAXALIGN(SizeOfPageHeaderData))
        M(name, from) ==
            EmitXmlTag("meta", c.blkno, lvl, name, 0,
                       U32(metaStartOffset + from), U32(metaStartOffset + from + 4 - 1))
    IN  << M("btm_magic", 0), M("btm_version", 4), M("btm_root", 8),
           M("btm_level", 12), M("btm_fastroot", 16), M("btm_fastlevel", 20) >>

\* lines 1322-1324: where the tag of item `offset` starts
\* the item array placed at the start of the page, headerBytes left out
ItemIdTagStartNoHeader(pageOff, headerBytes, offset) ==
    U32(pageOff + SizeOfItemIdData * (offset - 1))

ItemIdTagStart(pageOff, headerBytes, offset) ==
    U32(pageOff + headerBytes + SizeOfItemIdData * (offset - 1))

\* lines 1284-1326
ItemIdTags(c, headerBytes, maxOffset) ==
    [offset \in 1..maxOffset |->
        EmitXmlItemId(c.blkno, offset, ItemIdWord(c.buf, c.g, offset),
                      ItemIdTagStart(c.pageOffset, headerBytes, offset))]

\* lines 1332-1341
\* the sanity checks without the one of the layout version
InvalidHeaderAnyVersion(c, maxOffset, version) ==
    \/ maxOffset < 0
    \/ maxOffset > c.bs
    \/ PdUpper(c.buf, c.g) > c.bs
    \/ PdUpper(c.buf, c.g) > PdSpecial(c.buf, c.g)
    \/ PdLower(c.buf, c.g) < SizeOfPageHeaderData - SizeOfItemIdData
    \/ PdLower(c.buf, c.g) > c.bs
    \/ PdUpper(c.buf, c.g) < PdLower(c.buf, c.g)
    \/ PdSpecial(c.buf, c.g) > c.bs

InvalidHeader(c, maxOffset, version) ==
    \/ maxOffset < 0
    \/ maxOffset > c.bs
    \/ version # PG_PAGE_LAYOUT_VERSION
    \/ PdUpper(c.buf, c.g) > c.bs
    \/ PdUpper(c.buf, c.g) > PdSpecial(c.buf, c.g)
    \/ PdLower(c.buf, c.g) < SizeOfPageHeaderData - SizeOfItemIdData
    \/ PdLower(c.buf, c.g) > c.bs
    \/ PdUpper(c.buf, c.g) < PdLower(c.buf, c.g)
    \/ PdSpecial(c.buf, c.g) > c.bs

EmitXmlPageHeader(c, lvl, verify, checksumOk, oldVersion) ==
    IF HeaderTruncated(c.btf)
    THEN [rc |-> EOF_ENCOUNTERED, tags |-> <<>>, reports |-> {"EndOfBlockInHeader"},
          blockVersion |-> oldVersion]
    ELSE LET maxOffset == PageGetMaxOffsetNumber(c.buf, c.g)
             version == PageGetPageLayoutVersion(c.buf, c.g)
             cut == ItemArrayTruncated(c.btf, maxOffset)
             headerBytes == IF cut THEN c.btf ELSE SizeOfPageHeaderData
         IN  [rc |-> IF cut THEN EOF_ENCOUNTERED ELSE 0,
              tags |-> HeaderFieldTags(c, lvl)
                       \o (IF IsBtreeMetaPage(c.buf, c.g, c.btf, c.bs)
                           THEN MetaFieldTags(c, lvl)
                           ELSE ItemIdTags(c, headerBytes, maxOffset)),
              reports |-> (IF InvalidHeader(c, maxOffset, version)
                           THEN {"InvalidHeader"} ELSE {})
                          \cup (IF verify /\ ~checksumOk THEN {"ChecksumFailure"} ELSE {})
                          \cup (IF cut THEN {"EndOfBlockInHeader"} ELSE {}),
              blockVersion |-> version]

(***************************************************************************)
(* EmitXmlSpecial.                                                         *)
(***************************************************************************)
\* the cycle id tagged without sizeof(BTCycleId), i.e. as a single byte
BtreeSpecialTagsShortCycleid(c, lvl) ==
    LET specialOffset == PdSpecial(c.buf, c.g)
        S(name, val, from, to) ==
            EmitXmlTag("special", c.blkno, lvl, name, val,
                       U32(c.pageOffset + specialOffset + from),
                       U32(c.pageOffset + specialOffset + to - 1))
    IN  << S("btpo_prev", 0, 0, OffBtpoNext),
           S("btpo_next", 0, OffBtpoNext, OffBtpoLevel),
           S("btpo.level", 0, OffBtpoLevel, OffBtpoFlags),
           S("btpo_flags", Rd16(c.buf, c.g, specialOffset + OffBtpoFlags) % 256,
             OffBtpoFlags, OffBtpoCycleid),
           S("btpo_cycleid", 0, OffBtpoCycleid, OffBtpoCycleid + 1) >>

BtreeSpecialTags(c, lvl) ==
    LET specialOffset == PdSpecial(c.buf, c.g)
        S(name, val, from, to) ==
            EmitXmlTag("special", c.blkno, lvl, name, val,
                       U32(c.pageOffset + specialOffset + from),
                       U32(c.pageOffset + specialOffset + to - 1))
    IN  << S("btpo_prev", 0, 0, OffBtpoNext),
           S("btpo_next", 0, OffBtpoNext, OffBtpoLevel),
           S("btpo.level", 0, OffBtpoLevel, OffBtpoFlags),
           S("btpo_flags", Rd16(c.buf, c.g, specialOffset + OffBtpoFlags) % 256,
             OffBtpoFlags, OffBtpoCycleid),
           S("btpo_cycleid", 0, OffBtpoCycleid, OffBtpoCycleid + 2) >>

EmitXmlSpecial(c, special, lvl) ==
    IF special \in {"SPEC_SECT_ERROR_UNKNOWN", "SPEC_SECT_ERROR_BOUNDARY"}
    THEN Out(<<>>, {"InvalidSpecial"}, FALSE)
    ELSE IF special = "SPEC_SECT_INDEX_BTREE"
    THEN Out(BtreeSpecialTags(c, lvl), {}, FALSE)
    ELSE IF special \in {"SPEC_SECT_SEQUENCE", "SPEC_SECT_INDEX_HASH",
                             "SPEC_SECT_INDEX_GIST", "SPEC_SECT_INDEX_GIN",
                             "SPEC_SECT_INDEX_SPGIST"}
    THEN Out(<<>>, {"UnsupportedSpecial"}, FALSE)
    ELSE Out(<<>>, {}, FALSE)

(***************************************************************************)
(* EmitXmlPage, lines 881-905: the b-tree level and the leaf-page skip.    *)
(***************************************************************************)
BtreeLevel(c) == Rd32(c.buf, c.g, PdSpecial(c.buf, c.g) + OffBtpoLevel)

SkipAsLeaf(c, special, skipLeaf) ==
    /\ special = "SPEC_SECT_INDEX_BTREE"
    /\ HasBit(Rd16(c.buf, c.g, PdSpecial(c.buf, c.g) + OffBtpoFlags), BTP_LEAF)
    /\ ~HasBit(Rd16(c.buf, c.g, PdSpecial(c.buf, c.g) + OffBtpoFlags), BTP_ROOT)
    /\ skipLeaf

LeafPageTag(c, lvl) ==
    EmitXmlTag("leaf", c.blkno, lvl, "leaf page", 0,
               c.pageOffset, U32((c.pageOffset + BLCKSZ) - 1))

(***************************************************************************)
(* Input: the pages of the file.  A page is described by a sequence of     *)
(* writes <<offset, width, value>> (little-endian) over a zeroed block;    *)
(* a later write wins.  The program never sees the description, only the   *)
(* bytes that fread() puts into the buffer.                                *)
(***************************************************************************)
BlockSizes == {256}

WriteByte(w, k) == (w[3] \div (256 ^ (k - w[1]))) % 256

ByteOf(W, k) ==
    LET hit == {i \in 1..Len(W) : W[i][1] <= k /\ k < W[i][1] + W[i][2]}
        last == Cardinality({j \in 1..Len(W) : \E i \in hit : i >= j})
    IN  IF hit = {} THEN 0 ELSE WriteByte(W[last], k)

PageBytes(W, bs) == SubSeq([k \in 1..bs |-> ByteOf(W, k - 1)], 1, bs)

Hdr(lower, upper, special, psv) ==
    << <<OffPdLower, 2, lower>>, <<OffPdUpper, 2, upper>>,
       <<OffPdSpecial, 2, special>>, <<OffPdPagesizeVersion, 2, psv>> >>

\* an item pointer together with the bytes of the tuple it points to
Item(off, len, flags, body) == [off |-> off, len |-> len, flags |-> flags, body |-> body]

HeapTuple(infomask2, infomask, hoff) ==
    << <<OffTInfomask2, 2, infomask2>>, <<OffTInfomask, 2, infomask>>,
       <<OffTHoff, 1, hoff>> >>

IndexTuple(tinfo) == << <<OffTInfo, 2, tinfo>> >>

ItemWrites(its) ==
    [i \in 1..Len(its) |->
        <<PageGetItemId(i), SizeOfItemIdData,
          its[i].off + 32768 * its[i].flags + 131072 * its[i].len>>]

\* the tuple bytes of all items: three writes per item, an item with fewer
\* fields being padded with empty writes
BodyWrites(its) ==
    [j \in 1..(3 * Len(its)) |->
        LET it == its[((j - 1) \div 3) + 1]
            i == ((j - 1) % 3) + 1
        IN  IF i <= Len(it.body)
            THEN <<it.off + it.body[i][1], it.body[i][2], it.body[i][3]>>
            ELSE <<0, 0, 0>>]

\* the item arrays of the generated pages: up to MaxItems consecutive
\* entries of a cycle of items, starting anywhere in the cycle
Window(cyc, k, n) == [i \in 1..n |-> cyc[((k + i - 2) % Len(cyc)) + 1]]

ItemLists(cyc) == {Window(cyc, k, n) : k \in 1..Len(cyc), n \in 0..MaxItems}

\* row tuples: a plain one, one with a moved bit (t_xvac), an empty payload
\* (t_hoff = lp_len), a t_hoff below the fixed header, an unused pointer, a
\* dead pointer that still has storage, an item that runs past the block, a
\* redirect to item 2, and a normal pointer without storage
HeapItems ==
    << Item(200, 40, LP_NORMAL, HeapTuple(2, 2048, 24)),
       Item(160, 40, LP_NORMAL, HeapTuple(2, 2048 + HEAP_MOVED_OFF, 24)),
       Item(64, 32, LP_DEAD, HeapTuple(1, 2048, 24)),
       Item(128, 24, LP_NORMAL, HeapTuple(3, 2048 + HEAP_HASNULL, 24)),
       Item(0, 0, LP_UNUSED, <<>>),
       Item(96, 40, LP_NORMAL, HeapTuple(2, 2048, 16)),
       Item(240, 40, LP_NORMAL, HeapTuple(2, 2048, 24)),
       Item(2, 0, LP_REDIRECT, <<>>),
       Item(104, 0, LP_NORMAL, <<>>) >>

\* index tuples: a 16-byte entry, a minus-infinity entry (no payload), an
\* entry whose t_info size differs from lp_len, and one at the page's end
IndexItems ==
    << Item(200, 16, LP_NORMAL, IndexTuple(16)),
       Item(216, 8, LP_NORMAL, IndexTuple(8)),
       Item(176, 16, LP_NORMAL, IndexTuple(16384 + 24)),
       Item(252, 16, LP_NORMAL, IndexTuple(16)) >>

PageOf(lower, upper, special, psv, its, tail) ==
    Hdr(lower, upper, special, psv) \o ItemWrites(its) \o BodyWrites(its) \o tail

LowerFor(its) == SizeOfPageHeaderData + SizeOfItemIdData * Len(its)

OneHeapItem == << Item(200, 32, LP_NORMAL, HeapTuple(2, 2048, 24)) >>

\* the last page has a pd_lower that ends in the middle of an item pointer
HeapPages(bs) ==
    { PageOf(LowerFor(its), 64, bs, bs + PG_PAGE_LAYOUT_VERSION, its, <<>>) :
        its \in ItemLists(HeapItems) }
    \cup { PageOf(LowerFor(OneHeapItem) + 2, 64, bs, bs + PG_PAGE_LAYOUT_VERSION,
                  OneHeapItem, <<>>) }

BtOpaque(bs, lvl, flags, cycleid) ==
    << <<bs - SizeOfBTPageOpaque + OffBtpoLevel, 4, lvl>>,
       <<bs - SizeOfBTPageOpaque + OffBtpoFlags, 2, flags>>,
       <<bs - SizeOfBTPageOpaque + OffBtpoCycleid, 2, cycleid>> >>

\* internal page, leaf, root that is a leaf (the meta page is added below)
BtOpaques(bs) ==
    { BtOpaque(bs, 1, 0, 0), BtOpaque(bs, 0, BTP_LEAF, MAX_BT_CYCLE_ID),
      BtOpaque(bs, 0, BTP_LEAF + BTP_ROOT, 0) }

BtreePage(bs, its, op) ==
    PageOf(LowerFor(its), 64, bs - SizeOfBTPageOpaque, bs + PG_PAGE_LAYOUT_VERSION,
           its, op)

\* meta pages: the usual one, one whose pd_lower lies beyond the block, one
\* that also has the leaf flag and an item pointer, and one whose header
\* declares a page size other than the file's
MetaPages(bs) ==
    { BtreePage(bs, <<>>, BtOpaque(bs, 0, BTP_META, 0)),
      PageOf(bs + 44, 64, bs - SizeOfBTPageOpaque, bs + PG_PAGE_LAYOUT_VERSION,
             <<>>, BtOpaque(bs, 0, BTP_META, 0)),
      BtreePage(bs, << Item(200, 16, LP_NORMAL, IndexTuple(16)) >>,
                BtOpaque(bs, 0, BTP_META + BTP_LEAF, 0)),
      PageOf(28, 64, bs - SizeOfBTPageOpaque, 2 * bs + PG_PAGE_LAYOUT_VERSION,
             << Item(200, 16, LP_NORMAL, IndexTuple(16)) >>,
             BtOpaque(bs, 0, BTP_META, 0)) }

BtreePages(bs) ==
    { BtreePage(bs, its, op) : its \in ItemLists(IndexItems), op \in BtOpaques(bs) }
    \cup MetaPages(bs)

\* pages that exercise the classifier: special offset, the 4 bytes at
\* `special`, the trailing two bytes
ClassifierPage(bs, sp, magic, ptype) ==
    PageOf(LowerFor(OneHeapItem), 64, sp, bs + PG_PAGE_LAYOUT_VERSION, OneHeapItem,
           << <<bs - MaxAlignUint32, 4, magic>>, <<bs - 2, 2, ptype>> >>)

ClassifierPages(bs) ==
    { ClassifierPage(bs, sp, 0, ptype) :
        sp \in {0, bs + 44, bs - 2, bs - 6}, ptype \in {SPGIST_PAGE_ID, 0} }
    \cup
    { ClassifierPage(bs, bs - MaxAlignUint32, magic, ptype) :
        magic \in {0, SEQUENCE_MAGIC},
        ptype \in {HASHO_PAGE_ID, GIST_PAGE_ID, SPGIST_PAGE_ID, 65424} }
    \cup
    { ClassifierPage(bs, bs - SizeOfBTPageOpaque, SEQUENCE_MAGIC, ptype) :
        ptype \in {HASHO_PAGE_ID, GIST_PAGE_ID, SPGIST_PAGE_ID, 65424} }

\* headers that fail the sanity checks: upper beyond special, an old layout
\* version, lower inside the header, a page size other than the file's
BadHeaderPages(bs) ==
    { PageOf(LowerFor(OneHeapItem), bs, bs - SizeOfBTPageOpaque,
             bs + PG_PAGE_LAYOUT_VERSION, OneHeapItem, <<>>),
      PageOf(LowerFor(OneHeapItem), 64, bs, bs + 3, OneHeapItem, <<>>),
      PageOf(8, 64, bs, bs + PG_PAGE_LAYOUT_VERSION, <<>>, <<>>),
      PageOf(LowerFor(OneHeapItem), 64, bs, 2 * bs + PG_PAGE_LAYOUT_VERSION,
             OneHeapItem, <<>>) }

Pages(bs) == HeapPages(bs) \cup BtreePages(bs) \cup ClassifierPages(bs)
             \cup BadHeaderPages(bs)

\* pages offered as the short last block of the file, and the lengths read
ShortPages(bs) ==
    { PageOf(32, 64, bs, bs + PG_PAGE_LAYOUT_VERSION,
             << Item(200, 40, LP_NORMAL, HeapTuple(2, 2048, 24)),
                Item(160, 40, LP_NORMAL, HeapTuple(2, 2048, 24)) >>, <<>>),
      PageOf(32, 64, bs - SizeOfBTPageOpaque, bs + PG_PAGE_LAYOUT_VERSION,
             << Item(200, 16, LP_NORMAL, IndexTuple(16)),
                Item(216, 8, LP_NORMAL, IndexTuple(8)) >>,
             BtOpaque(bs, 0, BTP_LEAF, 0)),
      PageOf(24, 64, bs - SizeOfBTPageOpaque, bs + PG_PAGE_LAYOUT_VERSION, <<>>,
             BtOpaque(bs, 0, BTP_META, 0)) }

ShortReads(bs) == {16, 20, SizeOfPageHeaderData, 28, bs - 20, bs - 6}

\* the blocks fread() can deliver, as bytes (of every block size)
FullBlocks == UNION {{PageBytes(W, bs) : W \in Pages(bs)} : bs \in BlockSizes}

ShortBlocks == UNION {{PageBytes(W, bs) : W \in ShortPages(bs)} : bs \in BlockSizes}

(***************************************************************************)
(* Run configurations (the outcome of ConsumeOptions): block options, the  *)
(* block range, the segment size and number.                               *)
(***************************************************************************)
Config(opts, start, end, segSize, segNo) ==
    [blockOptions |-> opts, blockStart |-> start, blockEnd |-> end,
     segmentSize |-> segSize, segmentNumber |-> segNo]

\* RELSEG_SIZE * BLCKSZ
DefaultSegmentSize == 131072 * BLCKSZ

\* one run over the whole file; the others over a block range, with the
\* leaf skip, with checksums (segment 1), from block 1, and with all three
\* options on a small segment
Configs ==
    { Config({}, -1, -1, DefaultSegmentSize, 0),
      Config({"BLOCK_RANGE", "BLOCK_SKIP_LEAF"}, 0, 1, DefaultSegmentSize, 0),
      Config({"BLOCK_RANGE", "BLOCK_CHECKSUMS"}, 0, 0, DefaultSegmentSize, 1),
      Config({"BLOCK_RANGE"}, 1, 1, DefaultSegmentSize, 0),
      Config({"BLOCK_RANGE", "BLOCK_CHECKSUMS", "BLOCK_SKIP_LEAF"}, 0, 1, 1024, 2) }

(***************************************************************************)
(* State.                                                                  *)
(***************************************************************************)
VARIABLES
    blockOptions, blockStart, blockEnd, segmentSize, segmentNumber,
    blockSize, buffer, bytesToFormat, currentBlock, pageOffset, specialType,
    tagNumber, blockVersion, exitCode,
    contentsToDump, initialRead,    \* locals of EmitXmlFile
    level, rc,                      \* locals of EmitXmlPage
    pc,                             \* where the run is
    exited,                         \* exit() was called inside a decoder
    eof,                            \* the file has no more bytes
    tags,                           \* tags printed for the current block
    nEmitted,                       \* number of tags printed for earlier blocks
    reports,                        \* messages printed for the current block
    deref,                          \* the classifier read special/trailing bytes
    checksumBlock,                  \* block number passed to pg_checksum_page
    decoded                         \* blocks handed to EmitXmlPage, in order

config == <<blockOptions, blockStart, blockEnd, segmentSize, segmentNumber>>

vars == <<blockOptions, blockStart, blockEnd, segmentSize, segmentNumber,
          blockSize, buffer, bytesToFormat, currentBlock, pageOffset, specialType,
          tagNumber, blockVersion, exitCode, contentsToDump, initialRead,
          level, rc, pc, exited, eof, tags, nEmitted, reports, deref,
          checksumBlock, decoded>>

Init ==
    /\ \E cf \in Configs :
          /\ blockOptions = cf.blockOptions
          /\ blockStart = cf.blockStart
          /\ blockEnd = cf.blockEnd
          /\ segmentSize = cf.segmentSize
          /\ segmentNumber = cf.segmentNumber
    /\ blockSize = 0
    /\ buffer = <<>>
    /\ bytesToFormat = 0
    /\ currentBlock = 0
    /\ pageOffset = 0
    /\ specialType = "SPEC_SECT_NONE"
    /\ tagNumber = 0
    /\ blockVersion = 0
    /\ exitCode = 0
    /\ contentsToDump = 1
    /\ initialRead = 1
    /\ level = UINT_MAX
    /\ rc = 0
    /\ pc = "main"
    /\ exited = FALSE
    /\ eof = FALSE
    /\ tags = <<>>
    /\ nEmitted = 0
    /\ reports = {}
    /\ deref = FALSE
    /\ checksumBlock = -1
    /\ decoded = <<>>

(***************************************************************************)
(* main, lines 1646-1665, with GetBlockSize and the start of EmitXmlFile   *)
(* (lines 1567-1587).  The header of block 0 is either too short to read   *)
(* (block size 0, exit code 1) or gives the block size; a block size of 0  *)
(* ends the run.  Otherwise the buffer is allocated, its bytes being       *)
(* whatever malloc returns, and a requested range sets the first block.    *)
(***************************************************************************)
Main ==
    /\ pc = "main"
    /\ \E hdrRead \in BOOLEAN, bs \in BlockSizes \cup {0}, fill \in GarbageBytes :
          /\ blockSize' = IF hdrRead THEN bs ELSE 0
          /\ exitCode' = IF hdrRead THEN exitCode ELSE 1
          /\ buffer' = IF hdrRead /\ bs > 0 THEN [k \in 1..bs |-> fill] ELSE buffer
          /\ pc' = IF hdrRead /\ bs > 0 THEN "read" ELSE "done"
          /\ currentBlock' = IF hdrRead /\ bs > 0 /\ "BLOCK_RANGE" \in blockOptions
                             THEN blockStart ELSE currentBlock
    /\ UNCHANGED <<config, bytesToFormat, pageOffset, specialType, tagNumber,
                   blockVersion, contentsToDump, initialRead, level, rc, exited, eof,
                   tags, nEmitted, reports, deref, checksumBlock, decoded>>

(***************************************************************************)
(* fread(buffer, 1, blockSize, fp), line 1595.  The file offers a full     *)
(* block, a short last block, or nothing.  Block 0 was read by             *)
(* GetBlockSize: it has at least a page header and carries the block size. *)
(* A short read leaves the rest of the buffer as it was.                   *)
(***************************************************************************)
Overlay(old, new, n) == [k \in 1..Len(old) |-> IF k <= n THEN new[k] ELSE old[k]]

FitsBlock0(page, n, bs) ==
    currentBlock = 0 =>
        (n >= SizeOfPageHeaderData /\ PageGetPageSize(page, 0) = bs)

StartBlock ==
    /\ nEmitted' = nEmitted + Len(tags)
    /\ tags' = <<>>
    /\ reports' = {}

ReadFull ==
    /\ pc = "read"
    /\ ~eof
    /\ currentBlock < MaxBlocks
    /\ \E page \in FullBlocks :
          /\ Len(page) = blockSize
          /\ FitsBlock0(page, blockSize, blockSize)
          /\ buffer' = page
    /\ bytesToFormat' = blockSize
    /\ StartBlock
    /\ pc' = "page"
    /\ UNCHANGED <<config, blockSize, currentBlock, pageOffset, specialType, tagNumber,
                   blockVersion, exitCode, contentsToDump, initialRead, level, rc,
                   exited, eof, deref, checksumBlock, decoded>>

ReadShort ==
    /\ pc = "read"
    /\ ~eof
    /\ currentBlock < MaxBlocks
    /\ \E page \in ShortBlocks, n \in ShortReads(blockSize) :
          /\ Len(page) = blockSize
          /\ FitsBlock0(page, n, blockSize)
          /\ buffer' = Overlay(buffer, page, n)
          /\ bytesToFormat' = n
    /\ eof' = TRUE
    /\ StartBlock
    /\ pc' = "page"
    /\ UNCHANGED <<config, blockSize, currentBlock, pageOffset, specialType, tagNumber,
                   blockVersion, exitCode, contentsToDump, initialRead, level, rc,
                   exited, deref, checksumBlock, decoded>>

\* lines 1597-1607
ReadNothing ==
    /\ pc = "read"
    /\ currentBlock # 0
    /\ bytesToFormat' = 0
    /\ eof' = TRUE
    /\ reports' = IF initialRead = 1 THEN {"PrematureEndOfFile"} ELSE reports
    /\ contentsToDump' = 0
    /\ pc' = "next"
    /\ UNCHANGED <<config, blockSize, buffer, currentBlock, pageOffset, specialType,
                   tagNumber, blockVersion, exitCode, initialRead, level, rc, exited,
                   tags, nEmitted, deref, checksumBlock, decoded>>

(***************************************************************************)
(* EmitXmlPage, lines 868-905: the page offset, the classifier, the b-tree *)
(* level, and the whole-page tag of a skipped leaf.                        *)
(***************************************************************************)
PageOffsetOf(bs, blkno) == U32(bs * blkno)

Emit(protos) ==
    /\ tags' = tags \o Stamp(protos, tagNumber)
    /\ tagNumber' = TagNumberAfter(protos, tagNumber)

EmitXmlPage ==
    /\ pc = "page"
    /\ \E g \in GarbageBytes :
          LET c == Ctx(buffer, g, currentBlock, PageOffsetOf(blockSize, currentBlock),
                       bytesToFormat, blockSize)
              st == GetSpecialSectionType(buffer, g, bytesToFormat, blockSize)
              lvl == IF st.rc = "SPEC_SECT_INDEX_BTREE" THEN BtreeLevel(c) ELSE UINT_MAX
              skip == SkipAsLeaf(c, st.rc, "BLOCK_SKIP_LEAF" \in blockOptions)
          IN  /\ pageOffset' = c.pageOffset
              /\ specialType' = st.rc
              /\ deref' = st.deref
              /\ level' = lvl
              /\ rc' = 0
              /\ Emit(IF skip THEN << LeafPageTag(c, lvl) >> ELSE <<>>)
              /\ pc' = IF skip THEN "next" ELSE "header"
    /\ decoded' = Append(decoded, currentBlock)
    /\ UNCHANGED <<config, blockSize, buffer, bytesToFormat, currentBlock, blockVersion,
                   exitCode, contentsToDump, initialRead, exited, eof, nEmitted,
                   reports, checksumBlock>>

(***************************************************************************)
(* rc = EmitXmlPageHeader(page, blkno, level), line 912.  The checksum     *)
(* itself is computed outside the model: checksumOk is its comparison      *)
(* with pd_checksum.                                                       *)
(***************************************************************************)
\* the checksum computed for the block number within the segment
ChecksumDeltaNoSegment(segSize, bs, segNo) == 0

ChecksumDelta(segSize, bs, segNo) == U32((segSize \div bs) * segNo)

PageHeader ==
    /\ pc = "header"
    /\ \E g \in GarbageBytes, checksumOk \in BOOLEAN :
          LET c == Ctx(buffer, g, currentBlock, pageOffset, bytesToFormat, blockSize)
              verify == "BLOCK_CHECKSUMS" \in blockOptions
              h == EmitXmlPageHeader(c, level, verify, checksumOk, blockVersion)
          IN  /\ (~verify \/ HeaderTruncated(bytesToFormat)) => checksumOk
              /\ Emit(h.tags)
              /\ rc' = h.rc
              /\ blockVersion' = h.blockVersion
              /\ reports' = reports \cup h.reports
              /\ exitCode' = IF h.reports # {} THEN 1 ELSE exitCode
              /\ checksumBlock' =
                    IF verify /\ ~HeaderTruncated(bytesToFormat)
                    THEN U32(ChecksumDelta(segmentSize, blockSize, segmentNumber)
                             + currentBlock)
                    ELSE checksumBlock
              /\ pc' = IF h.rc # EOF_ENCOUNTERED THEN "tuples" ELSE "next"
    /\ UNCHANGED <<config, blockSize, buffer, bytesToFormat, currentBlock, pageOffset,
                   specialType, contentsToDump, initialRead, level, exited, eof,
                   nEmitted, deref, decoded>>

(***************************************************************************)
(* EmitXmlTuples(blkno, page), line 917.  exit() inside it ends the run.   *)
(***************************************************************************)
Tuples ==
    /\ pc = "tuples"
    /\ \E g \in GarbageBytes :
          LET c == Ctx(buffer, g, currentBlock, pageOffset, bytesToFormat, blockSize)
              t == EmitXmlTuples(c, specialType)
          IN  /\ Emit(t.tags)
              /\ reports' = reports \cup t.reports
              /\ exitCode' = IF t.exit \/ t.reports # {} THEN 1 ELSE exitCode
              /\ exited' = t.exit
              /\ pc' = IF t.exit THEN "done"
                       ELSE IF specialType # "SPEC_SECT_NONE" THEN "special"
                       ELSE "next"
    /\ UNCHANGED <<config, blockSize, buffer, bytesToFormat, currentBlock, pageOffset,
                   specialType, blockVersion, contentsToDump, initialRead, level, rc,
                   eof, nEmitted, deref, checksumBlock, decoded>>

(***************************************************************************)
(* EmitXmlSpecial(blkno, level), lines 919-920.                            *)
(***************************************************************************)
Special ==
    /\ pc = "special"
    /\ \E g \in GarbageBytes :
          LET c == Ctx(buffer, g, currentBlock, pageOffset, bytesToFormat, blockSize)
              sp == EmitXmlSpecial(c, specialType, level)
          IN  /\ Emit(sp.tags)
              /\ reports' = reports \cup sp.reports
              /\ exitCode' = IF sp.reports # {} THEN 1 ELSE exitCode
    /\ pc' = "next"
    /\ UNCHANGED <<config, blockSize, buffer, bytesToFormat, currentBlock, pageOffset,
                   specialType, blockVersion, contentsToDump, initialRead, level, rc,
                   exited, eof, nEmitted, deref, checksumBlock, decoded>>

(***************************************************************************)
(* The end of the loop body of EmitXmlFile, lines 1611-1620.               *)
(***************************************************************************)
\* the range test taken as "past the end" instead of "at or past the end"
AtRangeEndExclusive ==
    /\ "BLOCK_RANGE" \in blockOptions
    /\ currentBlock > blockEnd
    /\ contentsToDump = 1

AtRangeEnd ==
    /\ "BLOCK_RANGE" \in blockOptions
    /\ currentBlock >= blockEnd
    /\ contentsToDump = 1

NextBlock ==
    /\ pc = "next"
    /\ contentsToDump' = IF AtRangeEnd THEN 0 ELSE contentsToDump
    /\ currentBlock' = IF AtRangeEnd THEN currentBlock ELSE U32(currentBlock + 1)
    /\ initialRead' = 0
    /\ pc' = IF contentsToDump = 1 /\ ~AtRangeEnd THEN "read" ELSE "footer"
    /\ UNCHANGED <<config, blockSize, buffer, bytesToFormat, pageOffset, specialType,
                   tagNumber, blockVersion, exitCode, level, rc, exited, eof, tags,
                   nEmitted, reports, deref, checksumBlock, decoded>>

(***************************************************************************)
(* EmitXmlFooter and the exit(exitCode) of main, lines 1623 and 1668-1674. *)
(***************************************************************************)
Footer ==
    /\ pc = "footer"
    /\ pc' = "done"
    /\ UNCHANGED <<config, blockSize, buffer, bytesToFormat, currentBlock, pageOffset,
                   specialType, tagNumber, blockVersion, exitCode, contentsToDump,
                   initialRead, level, rc, exited, eof, tags, nEmitted, reports,
                   deref, checksumBlock, decoded>>

Next ==
    \/ Main
    \/ ReadFull
    \/ ReadShort
    \/ ReadNothing
    \/ EmitXmlPage
    \/ PageHeader
    \/ Tuples
    \/ Special
    \/ NextBlock
    \/ Footer

Spec == Init /\ [][Next]_vars

\* The program is one sequential process: until it has reached its end it
\* takes its next step.  Every step of Next moves pc, and Next has a step in
\* every state in which pc is not "done", so that the fairness of Next is
\* stated on pc alone.
Locations ==
    {"main", "read", "page", "header", "tuples", "special", "next", "footer", "done"}

Advance == pc # "done" /\ pc' \in Locations \ {pc}

LiveSpec == Spec /\ WF_pc(Advance)

(***************************************************************************)
(* Properties.  Tags of the block in hand are in `tags`, in the order they *)
(* were printed; nEmitted counts the tags of the earlier blocks.           *)
(***************************************************************************)
TagIndices == 1..Len(tags)

\* the file offset of the first byte of the block a tag belongs to
PageBase(t) == blockSize * t.blk

\* EmitXmlPage has classified the block in the buffer
Classified == pc \in {"header", "tuples", "special"}

\* the page in the buffer was read whole
FullyRead == bytesToFormat = blockSize /\ Len(buffer) = blockSize

\* the two bytes that end the block, and the word at pd_special
TrailingId == Rd16(buffer, 0, blockSize - 2)
WordAtSpecial == Rd32(buffer, 0, PdSpecial(buffer, 0))
SpecialSizeOfPage == blockSize - PdSpecial(buffer, 0)

\* C1: the k-th tag printed in a run has id k - 1, whatever routine prints
\* it, and the counter stands at the number of tags printed so far: ids
\* start at 0, go up by one, never repeat, and are not reset between blocks.
C1_IdsCountUp ==
    /\ \A i \in TagIndices : tags[i].id = nEmitted + i - 1
    /\ tagNumber = nEmitted + Len(tags)

\* C1 witness: a later block has printed tags of the header, the item
\* array and a tuple after an earlier block printed some
C1_Witness ==
    /\ nEmitted > 0
    /\ \E i, j, k \in TagIndices :
          /\ tags[i].kind = "header" /\ tags[j].kind = "itemid"
          /\ tags[k].kind = "heap" /\ tags[k].blk > 0

\* C2: within one block, tags are printed in non-decreasing order of their
\* start offsets, whatever offsets the item pointers declare.  Stated here
\* for the blocks the run decodes with no report at all, where it fails
\* already.
C2_StartsNonDecreasing ==
    (reports = {} /\ ~exited) =>
        \A i, j \in TagIndices : i < j => tags[i].start <= tags[j].start

\* C3: every tag of a block that is decoded without exit() ends at or after
\* its start, a row tuple with an empty payload (t_hoff = lp_len) included.
\* Stated here for the blocks the run decodes with no report at all.
C3_EndNotBeforeStart ==
    (reports = {} /\ ~exited) =>
        \A i \in TagIndices : tags[i].start <= tags[i].end

\* C4: the "contents" tag of a row tuple ends at the block's file offset
\* plus lp_off plus lp_len minus 1 of its item pointer, whatever t_hoff is.
C4_HeapContentsEnd ==
    \A i \in TagIndices :
        (tags[i].kind = "heap" /\ tags[i].name = "contents") =>
            \A g \in GarbageBytes :
                LET w == ItemIdWord(buffer, g, tags[i].slot)
                IN  tags[i].end =
                        PageBase(tags[i]) + ItemIdGetOffset(w) + ItemIdGetLength(w) - 1

\* C4 witness: a row tuple whose t_hoff (16) is not the usual header length
\* has its "contents" tag
C4_Witness ==
    \E i \in TagIndices :
        /\ tags[i].kind = "heap" /\ tags[i].name = "contents"
        /\ LET w == ItemIdWord(buffer, 0, tags[i].slot)
           IN  Byte(buffer, 0, ItemIdGetOffset(w) + OffTHoff) = 16

\* C5, as the specification states it: the "contents" tag of an index tuple
\* ends at the block's file offset plus lp_off plus lp_len minus 1.
C5_IndexContentsEndsAtLpLen ==
    \A i \in TagIndices :
        (tags[i].kind = "index" /\ tags[i].name = "contents") =>
            \A g \in GarbageBytes :
                LET w == ItemIdWord(buffer, g, tags[i].slot)
                IN  tags[i].end =
                        PageBase(tags[i]) + ItemIdGetOffset(w) + ItemIdGetLength(w) - 1

\* C5, amended: the "contents" tag of an index tuple ends at the block's
\* file offset plus lp_off plus the tuple's own size (t_info & 0x1FFF)
\* minus 1; lp_len is not used.  A t_info beyond the buffer reads as
\* whatever lies there.
C5_IndexContentsEndsAtTupleSize ==
    \A i \in TagIndices :
        (tags[i].kind = "index" /\ tags[i].name = "contents") =>
            \E g \in GarbageBytes :
                LET off == ItemIdGetOffset(ItemIdWord(buffer, g, tags[i].slot))
                IN  /\ tags[i].start = PageBase(tags[i]) + off + OffTInfo + 2
                    /\ tags[i].end =
                          PageBase(tags[i]) + off + IndexTupleSize(buffer, g, off) - 1

\* C5 witness: an index tuple inside the buffer whose size in t_info is not
\* its lp_len has its "contents" tag
C5_Witness ==
    \E i \in TagIndices :
        /\ tags[i].kind = "index" /\ tags[i].name = "contents"
        /\ LET w == ItemIdWord(buffer, 0, tags[i].slot)
           IN  /\ ItemIdGetOffset(w) + OffTInfo + 2 <= Len(buffer)
               /\ IndexTupleSize(buffer, 0, ItemIdGetOffset(w)) # ItemIdGetLength(w)

\* headerSize <= lower <= upper <= special <= pageSize on a block read
\* whole, the item array a whole number of item pointers
ValidFullPage ==
    /\ FullyRead
    /\ PageGetPageSize(buffer, 0) = blockSize
    /\ SizeOfPageHeaderData <= PdLower(buffer, 0)
    /\ PdLower(buffer, 0) <= PdUpper(buffer, 0)
    /\ PdUpper(buffer, 0) <= PdSpecial(buffer, 0)
    /\ PdSpecial(buffer, 0) <= blockSize
    /\ (PdLower(buffer, 0) - SizeOfPageHeaderData) % SizeOfItemIdData = 0

HeaderDecoderTag(t) == t.kind \in {"header", "meta", "itemid"}

\* C6: on a valid block read whole, the tags of the page-header decoder
\* (header fields, then item pointers or meta-page fields) lie within
\* [page base, page base + pd_special) and no two of them overlap.
C6_HeaderTagsDisjointBelowSpecial ==
    ValidFullPage =>
        /\ \A i \in TagIndices :
              HeaderDecoderTag(tags[i]) =>
                  /\ PageBase(tags[i]) <= tags[i].start
                  /\ tags[i].start <= tags[i].end
                  /\ tags[i].end < PageBase(tags[i]) + PdSpecial(buffer, 0)
        /\ \A i, j \in TagIndices :
              (i < j /\ HeaderDecoderTag(tags[i]) /\ HeaderDecoderTag(tags[j])) =>
                  (tags[i].end < tags[j].start \/ tags[j].end < tags[i].start)

\* C6 witness: a valid block after the first has the eight header fields
\* and two item pointers tagged
C6_Witness ==
    /\ ValidFullPage
    /\ Cardinality({i \in TagIndices : tags[i].kind = "header"}) = 8
    /\ \E i \in TagIndices :
          tags[i].kind = "itemid" /\ tags[i].slot = 2 /\ tags[i].blk > 0

\* pd_special is 0, beyond the block size, or beyond the bytes read
SpecialOutOfBounds ==
    \/ PdSpecial(buffer, 0) = 0
    \/ PdSpecial(buffer, 0) > blockSize
    \/ PdSpecial(buffer, 0) > bytesToFormat

\* C7: with no more bytes than a page header the classifier answers
\* SPEC_SECT_ERROR_UNKNOWN whatever pd_special is; with more, a pd_special
\* of 0, beyond the block size or beyond the bytes read gives
\* SPEC_SECT_ERROR_BOUNDARY; neither answer reads the bytes at pd_special
\* or the last two bytes of the block.
C7_ClassifierErrors ==
    Classified =>
        /\ bytesToFormat <= SizeOfPageHeaderData =>
              (specialType = "SPEC_SECT_ERROR_UNKNOWN" /\ ~deref)
        /\ (bytesToFormat > SizeOfPageHeaderData /\ SpecialOutOfBounds) =>
              (specialType = "SPEC_SECT_ERROR_BOUNDARY" /\ ~deref)

\* C7 witness: a partial block whose pd_special lies on the block but past
\* the bytes read, the stale bytes at the block's end spelling the SP-GiST
\* page id, is classified
C7_Witness ==
    /\ Classified
    /\ bytesToFormat > SizeOfPageHeaderData
    /\ bytesToFormat < PdSpecial(buffer, 0)
    /\ PdSpecial(buffer, 0) < blockSize
    /\ TrailingId = SPGIST_PAGE_ID
    /\ specialType = "SPEC_SECT_ERROR_BOUNDARY"

\* C8: on a block read whole whose special section has the size of an
\* aligned uint32, the sequence magic at pd_special gives a sequence even
\* when the block ends with the SP-GiST page id; without the magic that
\* page id (the size being that of the SP-GiST opaque) gives SP-GiST; else
\* the size of the GIN opaque gives GIN; else the type is unknown.
C8_AlignedWordPriority ==
    (Classified /\ FullyRead /\ ~SpecialOutOfBounds
        /\ SpecialSizeOfPage = MaxAlignUint32) =>
        specialType =
            IF WordAtSpecial = SEQUENCE_MAGIC
            THEN "SPEC_SECT_SEQUENCE"
            ELSE IF TrailingId = SPGIST_PAGE_ID
                    /\ SpecialSizeOfPage = SizeOfSpGistPageOpaque
            THEN "SPEC_SECT_INDEX_SPGIST"
            ELSE IF SpecialSizeOfPage = SizeOfGinPageOpaque
            THEN "SPEC_SECT_INDEX_GIN"
            ELSE "SPEC_SECT_ERROR_UNKNOWN"

\* C8 witness: a block with both the sequence magic and the SP-GiST page id
\* is classified as a sequence
C8_Witness ==
    /\ Classified /\ FullyRead
    /\ SpecialSizeOfPage = MaxAlignUint32
    /\ WordAtSpecial = SEQUENCE_MAGIC
    /\ TrailingId = SPGIST_PAGE_ID
    /\ specialType = "SPEC_SECT_SEQUENCE"

\* the type of a block read whole with pd_special on the block, as a table
\* of (special size, word at pd_special, trailing two bytes)
FamilyTable(size, word, id) ==
    IF size = 0 THEN "SPEC_SECT_NONE"
    ELSE IF size = MaxAlignUint32
    THEN (IF word = SEQUENCE_MAGIC THEN "SPEC_SECT_SEQUENCE"
          ELSE IF id = SPGIST_PAGE_ID THEN "SPEC_SECT_INDEX_SPGIST"
          ELSE "SPEC_SECT_INDEX_GIN")
    ELSE IF size = SizeOfBTPageOpaque
    THEN (IF id <= MAX_BT_CYCLE_ID THEN "SPEC_SECT_INDEX_BTREE"
          ELSE IF id = HASHO_PAGE_ID THEN "SPEC_SECT_INDEX_HASH"
          ELSE IF id = GIST_PAGE_ID THEN "SPEC_SECT_INDEX_GIST"
          ELSE "SPEC_SECT_ERROR_UNKNOWN")
    ELSE "SPEC_SECT_ERROR_UNKNOWN"

\* C9: on a block read whole with pd_special on the block, a special size
\* of 0 gives no special section; the size of the b-tree opaque gives
\* b-tree, hash or GiST by the trailing two bytes (<= the largest cycle id,
\* the hash id, the GiST id) and unknown for any other trailing value; a
\* size that is none of the known ones gives unknown.  The type is the
\* same function of (pd_special, block size, bytes read, word at
\* pd_special, trailing two bytes) in every state, and no byte off the
\* buffer takes part in it.
C9_FamilyBySizeAndId ==
    (Classified /\ FullyRead /\ ~SpecialOutOfBounds) =>
        /\ specialType = FamilyTable(SpecialSizeOfPage, WordAtSpecial, TrailingId)
        /\ \A g \in GarbageBytes :
              GetSpecialSectionType(buffer, g, bytesToFormat, blockSize).rc
                  = specialType

\* C9 witness: a block with a b-tree sized special section that ends with
\* the largest cycle id is classified as b-tree
C9_Witness ==
    /\ Classified /\ FullyRead
    /\ SpecialSizeOfPage = SizeOfBTPageOpaque
    /\ TrailingId = MAX_BT_CYCLE_ID
    /\ specialType = "SPEC_SECT_INDEX_BTREE"

\* EmitXmlPage was called for the block in the buffer and has not returned
\* further than the end of the loop body
PageInHand ==
    /\ pc \in {"header", "tuples", "special", "next"}
    /\ decoded # <<>>
    /\ decoded[Len(decoded)] = currentBlock

\* C10: a block of fewer bytes than the page header without its item array
\* prints no tag at all and leaves the tag counter where it was; the
\* truncation is reported and the exit code set to 1; the run goes on to
\* the end of the loop body, without exit().
C10_TruncatedHeader ==
    (PageInHand /\ bytesToFormat < SizeOfPageHeaderData) =>
        /\ pc \in {"header", "next"}
        /\ tags = <<>>
        /\ tagNumber = nEmitted
        /\ ~exited
        /\ pc = "next" => ("EndOfBlockInHeader" \in reports /\ exitCode = 1)

\* C10 witness: a second block of 16 bytes has been through EmitXmlPage,
\* the first block having printed tags
C10_Witness ==
    /\ PageInHand
    /\ pc = "next"
    /\ bytesToFormat = 16
    /\ nEmitted > 0
    /\ "EndOfBlockInHeader" \in reports

\* EmitXmlPageHeader has returned for the block in the buffer
HeaderDone == PageInHand /\ pc \in {"tuples", "special", "next"}

\* the 16 bytes that end a block read whole are a b-tree opaque with a valid
\* cycle id and the meta flag (special size taken from the file's block size)
MetaByTrailer ==
    /\ FullyRead
    /\ SpecialSizeOfPage = SizeOfBTPageOpaque
    /\ Rd16(buffer, 0, blockSize - SizeOfBTPageOpaque + OffBtpoCycleid) <= MAX_BT_CYCLE_ID
    /\ HasBit(Rd16(buffer, 0, blockSize - SizeOfBTPageOpaque + OffBtpoFlags), BTP_META)

\* the block's tags are the eight header fields, then the six meta fields,
\* and none of an item pointer or a tuple
MetaDecoded ==
    /\ Len(tags) >= 14
    /\ \A i \in 1..8 : tags[i].kind = "header"
    /\ \A i \in 9..14 : tags[i].kind = "meta"
    /\ \A i \in TagIndices :
          /\ tags[i].kind \notin {"itemid", "heap", "index"}
          /\ tags[i].kind = "meta" => i \in 9..14

\* the opaque at the block's end has the leaf flag without the root flag
LeafNotRoot ==
    /\ HasBit(Rd16(buffer, 0, blockSize - SizeOfBTPageOpaque + OffBtpoFlags), BTP_LEAF)
    /\ ~HasBit(Rd16(buffer, 0, blockSize - SizeOfBTPageOpaque + OffBtpoFlags), BTP_ROOT)

\* C11, as the specification states it: a block read whole whose trailing
\* opaque has a valid cycle id and the meta flag gets the six meta fields
\* after the header fields and no item pointer or tuple tag, whatever its
\* pd_lower, pd_upper, other flag bits and the options of the run.
C11_MetaAlwaysDecoded ==
    (HeaderDone /\ MetaByTrailer) => MetaDecoded

\* C11, amended: such a block gets the six meta fields after the header
\* fields and no item pointer or tuple tag, whatever pd_lower and pd_upper
\* are, provided the page size its header declares is the file's block size
\* and the block is not skipped as a leaf; a meta block with the leaf flag
\* and without the root flag is skipped like any leaf when BLOCK_SKIP_LEAF
\* is set, and gets the one whole-page tag only.
C11_MetaDecodedUnlessSkipped ==
    (PageInHand /\ MetaByTrailer /\ PageGetPageSize(buffer, 0) = blockSize) =>
        IF LeafNotRoot /\ "BLOCK_SKIP_LEAF" \in blockOptions
        THEN pc = "next" /\ Len(tags) = 1 /\ tags[1].kind = "leaf"
        ELSE pc # "header" => MetaDecoded

\* C11 witness: a meta block whose pd_lower lies beyond the block has its
\* six meta fields tagged
C11_Witness ==
    /\ HeaderDone /\ MetaByTrailer
    /\ PdLower(buffer, 0) > blockSize
    /\ Cardinality({i \in TagIndices : tags[i].kind = "meta"}) = 6

\* EmitXmlTuples has run for the block in the buffer: it returned, or it
\* called exit()
TuplesDone ==
    /\ decoded # <<>>
    /\ decoded[Len(decoded)] = currentBlock
    /\ \/ pc \in {"special", "next"} /\ rc = 0 /\ tags # <<>> /\ tags[1].kind # "leaf"
       \/ pc = "done" /\ exited

\* the block is decoded as a page of rows: it is not a b-tree page (meta
\* page included) and not of a family whose items are not decoded
RowPage ==
    specialType \in {"SPEC_SECT_NONE", "SPEC_SECT_SEQUENCE",
                     "SPEC_SECT_ERROR_UNKNOWN", "SPEC_SECT_ERROR_BOUNDARY"}

\* the item pointers of the block in the buffer
Slots ==
    IF PageGetMaxOffsetNumber(buffer, 0) \in 1..blockSize
    THEN 1..PageGetMaxOffsetNumber(buffer, 0) ELSE {}

SlotLength(s) == ItemIdGetLength(ItemIdWord(buffer, 0, s))
SlotOffset(s) == ItemIdGetOffset(ItemIdWord(buffer, 0, s))
SlotFlags(s) == ItemIdGetFlags(ItemIdWord(buffer, 0, s))

\* the number of tags of a kind printed for item s
TagsOfSlot(kind, s) ==
    Cardinality({i \in TagIndices : tags[i].kind = kind /\ tags[i].slot = s})

\* item s declares bytes beyond the block or beyond the bytes read
SlotBeyondBlock(s) ==
    \/ SlotOffset(s) + SlotLength(s) > blockSize
    \/ SlotOffset(s) + SlotLength(s) > bytesToFormat

\* C12, as the specification states it: on a page of rows, the items with
\* row-tuple tags are exactly the LP_NORMAL ones.
C12_RowTagsIffNormal ==
    (TuplesDone /\ RowPage /\ ~exited) =>
        \A s \in Slots : (TagsOfSlot("heap", s) > 0) <=> (SlotFlags(s) = LP_NORMAL)

\* C12, amended: on a page of rows, an item gets its eleven row-tuple tags
\* exactly when its lp_len is not 0, whatever its lp_flags, and provided no
\* item up to it runs past the block (which ends the run).
C12_RowTagsIffStorage ==
    (TuplesDone /\ RowPage) =>
        \A s \in Slots :
            TagsOfSlot("heap", s) =
                IF SlotLength(s) # 0 /\ \A r \in 1..s : ~SlotBeyondBlock(r)
                THEN 11 ELSE 0

\* C12 witness: an LP_DEAD item with storage has its row-tuple tags
C12_Witness ==
    /\ TuplesDone /\ RowPage /\ ~exited
    /\ \E s \in Slots :
          SlotFlags(s) = LP_DEAD /\ SlotLength(s) # 0 /\ TagsOfSlot("heap", s) = 11

\* the block is decoded as a b-tree page with an item array
IndexPage ==
    /\ specialType = "SPEC_SECT_INDEX_BTREE"
    /\ ~IsBtreeMetaPage(buffer, 0, bytesToFormat, blockSize)

\* the number of tags of a kind and name printed for item s
NamedTagsOfSlot(kind, name, s) ==
    Cardinality({i \in TagIndices :
                    tags[i].kind = kind /\ tags[i].name = name /\ tags[i].slot = s})

\* the size an index tuple declares in t_info, as far as the buffer holds it
\* (beyond the buffer the two bytes are whatever lies there)
SlotTupleSizes(s) ==
    {IndexTupleSize(buffer, g, SlotOffset(s)) : g \in GarbageBytes}

\* C13, as the specification states it: an index tuple whose size is that
\* of its 8-byte header gets two tags and no "contents" tag; a longer one
\* gets one "contents" tag in addition.
C13_EmptyEntryTwoTags ==
    (TuplesDone /\ IndexPage) =>
        \A s \in Slots : \E size \in SlotTupleSizes(s) :
            /\ NamedTagsOfSlot("index", "contents", s) = (IF size > 8 THEN 1 ELSE 0)
            /\ TagsOfSlot("index", s) = (IF size > 8 THEN 3 ELSE 2)

\* C13, amended: every index tuple gets four header tags (the three parts
\* of t_tid, then t_info); one whose size in t_info is no more than the 8
\* bytes of the header gets no "contents" tag, a longer one exactly one.
C13_EmptyEntryFourTags ==
    (TuplesDone /\ IndexPage) =>
        \A s \in Slots : \E size \in SlotTupleSizes(s) :
            /\ NamedTagsOfSlot("index", "t_tid->bi_hi", s) = 1
            /\ NamedTagsOfSlot("index", "t_tid->bi_lo", s) = 1
            /\ NamedTagsOfSlot("index", "t_tid->offsetNumber", s) = 1
            /\ NamedTagsOfSlot("index", "t_info", s) = 1
            /\ NamedTagsOfSlot("index", "contents", s) = (IF size > 8 THEN 1 ELSE 0)
            /\ TagsOfSlot("index", s) = (IF size > 8 THEN 5 ELSE 4)

\* C13 witness: a page with an 8-byte index tuple (no "contents" tag) and a
\* longer one (with it) has been decoded
C13_Witness ==
    /\ TuplesDone /\ IndexPage
    /\ \E s, r \in Slots :
          /\ SlotOffset(s) + 8 <= blockSize
          /\ IndexTupleSize(buffer, 0, SlotOffset(s)) = 8
          /\ TagsOfSlot("index", s) = 4
          /\ IndexTupleSize(buffer, 0, SlotOffset(r)) > 8
          /\ TagsOfSlot("index", r) = 5

\* the families EmitXmlSpecial names as unsupported
UnsupportedTypes ==
    {"SPEC_SECT_SEQUENCE", "SPEC_SECT_INDEX_HASH", "SPEC_SECT_INDEX_GIST",
     "SPEC_SECT_INDEX_GIN", "SPEC_SECT_INDEX_SPGIST"}

\* the block in the buffer went to EmitXmlPage, its header passed the checks
\* of EmitXmlPageHeader, and it has items, none of them past the block
SoundPageDecoded ==
    /\ decoded # <<>>
    /\ decoded[Len(decoded)] = currentBlock
    /\ pc \in {"tuples", "special", "next", "done"}
    /\ FullyRead
    /\ "InvalidHeader" \notin reports
    /\ Slots # {}
    /\ \A s \in Slots : ~SlotBeyondBlock(s)

\* C14: a block of an unsupported family (hash, GiST, GIN, SP-GiST,
\* sequence) does not end the run: exit() is not called, and once the block
\* is done the unsupported type has been reported, the exit code is 1 and no
\* tag of a special section has been printed.
C14_UnsupportedNonFatal ==
    (SoundPageDecoded /\ specialType \in UnsupportedTypes) =>
        /\ ~exited
        /\ pc = "next" =>
              /\ "UnsupportedSpecial" \in reports
              /\ exitCode = 1
              /\ \A i \in TagIndices : tags[i].kind # "special"

\* no tuple tag for item s or any item after it, and no special-section tag
NothingFromSlotOn(s) ==
    \A i \in TagIndices :
        /\ tags[i].kind \in {"heap", "index"} => tags[i].slot < s
        /\ tags[i].kind # "special"

\* C15: on a page of rows and on an index page alike, an item that declares
\* lp_off + lp_len beyond the block size or beyond the bytes read ends the
\* run with exit code 1 before a tag of that item, of a later item or of
\* the special section is printed.
C15_ItemPastBlockFatal ==
    (TuplesDone /\ (RowPage \/ IndexPage) /\ "InvalidHeader" \notin reports) =>
        \A s \in Slots :
            SlotBeyondBlock(s) => (exited /\ exitCode = 1 /\ NothingFromSlotOn(s))

\* EmitXmlTuples was called for the block in the buffer, which is not a
\* b-tree meta page and has no item pointer, and the run has left that call
EmptyDirectoryDecoded ==
    /\ decoded # <<>>
    /\ decoded[Len(decoded)] = currentBlock
    /\ pc \in {"special", "next", "footer", "done"}
    /\ tags # <<>> /\ tags[1].kind # "leaf"
    /\ rc = 0
    /\ bytesToFormat >= SizeOfPageHeaderData
    /\ PageGetMaxOffsetNumber(buffer, 0) = 0
    /\ ~IsBtreeMetaPage(buffer, 0, bytesToFormat, blockSize)

\* C16: a block that is not a meta page and whose item array is empty
\* (pd_lower leaves room for no item pointer) ends the run in EmitXmlTuples
\* with exit code 1: the eight header tags are all it prints, no
\* special-section tag follows, and no later block is read.
C16_EmptyBlockFatal ==
    EmptyDirectoryDecoded =>
        /\ exited /\ pc = "done" /\ exitCode = 1
        /\ "EmptyBlock" \in reports
        /\ Len(tags) = 8
        /\ \A i \in TagIndices : tags[i].kind = "header"

\* C16 witness: the second block of a run, a b-tree page without items, has
\* ended the run
C16_Witness ==
    /\ EmptyDirectoryDecoded
    /\ currentBlock > 0 /\ nEmitted > 0
    /\ specialType = "SPEC_SECT_INDEX_BTREE"
    /\ exited

\* EmitXmlPageHeader has tagged the header fields of the block in the buffer
HeaderTagged ==
    /\ decoded # <<>>
    /\ decoded[Len(decoded)] = currentBlock
    /\ pc \in {"tuples", "special", "next", "footer", "done"}
    /\ bytesToFormat >= SizeOfPageHeaderData
    /\ tags # <<>> /\ tags[1].kind = "header"

\* pd_lower, pd_upper, pd_special out of order or beyond the block size,
\* pd_lower more than an item pointer short of the header size, more item
\* pointers than bytes of a block, or a layout version other than 4
HeaderInconsistent ==
    \/ PdLower(buffer, 0) > PdUpper(buffer, 0)
    \/ PdUpper(buffer, 0) > PdSpecial(buffer, 0)
    \/ PdLower(buffer, 0) > blockSize
    \/ PdUpper(buffer, 0) > blockSize
    \/ PdSpecial(buffer, 0) > blockSize
    \/ PdLower(buffer, 0) < SizeOfPageHeaderData - SizeOfItemIdData
    \/ PageGetMaxOffsetNumber(buffer, 0) > blockSize
    \/ PageGetPageLayoutVersion(buffer, 0) # PG_PAGE_LAYOUT_VERSION

\* the item array pd_lower declares does not fit in the bytes read
DirectoryCut == ItemArrayTruncated(bytesToFormat, PageGetMaxOffsetNumber(buffer, 0))

\* the block is finished and the run has gone on without exit()
PageFinished == ~exited /\ pc \in {"next", "footer", "done"}

\* every item of the block has the tuple tags its page kind gives it
TuplesDecoded ==
    \A s \in Slots :
        /\ RowPage => TagsOfSlot("heap", s) = (IF SlotLength(s) # 0 THEN 11 ELSE 0)
        /\ IndexPage => TagsOfSlot("index", s) >= 4

\* EmitXmlSpecial has done what it does for the block's special type
SpecialDecoded ==
    /\ specialType = "SPEC_SECT_INDEX_BTREE" =>
          Cardinality({i \in TagIndices : tags[i].kind = "special"}) = 5
    /\ specialType \in {"SPEC_SECT_ERROR_UNKNOWN", "SPEC_SECT_ERROR_BOUNDARY"} =>
          "InvalidSpecial" \in reports
    /\ specialType \in UnsupportedTypes => "UnsupportedSpecial" \in reports

PastLeafSkip ==
    /\ decoded # <<>>
    /\ decoded[Len(decoded)] = currentBlock
    /\ pc \in {"header", "tuples", "special", "next"}
    /\ bytesToFormat > 0

\* a b-tree page with the leaf flag and without the root flag, in a run
\* with BLOCK_SKIP_LEAF
SkippableLeaf ==
    /\ specialType = "SPEC_SECT_INDEX_BTREE"
    /\ LeafNotRoot
    /\ "BLOCK_SKIP_LEAF" \in blockOptions

\* the one tag of a skipped leaf: labelled with the level in the opaque
LeafTagOnly ==
    /\ pc = "next"
    /\ Len(tags) = 1
    /\ tags[1].kind = "leaf"
    /\ tags[1].level = Rd32(buffer, 0, blockSize - SizeOfBTPageOpaque + OffBtpoLevel)
    /\ tags[1].start = blockSize * currentBlock

\* C18: with BLOCK_SKIP_LEAF a b-tree page with the leaf flag and without
\* the root flag gets one tag and no other, labelled with the tree level and
\* spanning the page; a b-tree page with the root flag, and every page of a
\* run without the option, gets no such tag and goes on to the header.
C18_LeafSkippedAsWholePage ==
    PastLeafSkip =>
        IF SkippableLeaf
        THEN LeafTagOnly /\ tags[1].end = blockSize * (currentBlock + 1) - 1
        ELSE /\ \A i \in TagIndices : tags[i].kind # "leaf"
             /\ (pc # "header" /\ bytesToFormat >= SizeOfPageHeaderData) =>
                    (tags # <<>> /\ tags[1].kind = "header")

\* the tags EmitXmlPageHeader prints for the block in the buffer when no
\* checksum is asked for, numbered from the block's first tag on
HeaderTagsUnverified(g) ==
    Stamp(EmitXmlPageHeader(Ctx(buffer, g, currentBlock, blockSize * currentBlock,
                                bytesToFormat, blockSize),
                            level, FALSE, TRUE, 0).tags,
          nEmitted)

\* C19: every tag of block b carries b in its text and lies at or after
\* blockSize * b, the first header field and the leaf tag exactly there,
\* and the header's tags are those of a run without checksums, whatever the
\* segment size, the segment number and BLOCK_CHECKSUMS are; the block
\* number given to pg_checksum_page is (segmentSize / blockSize) *
\* segmentNumber + b; a checksum failure is reported, sets the exit code and
\* neither changes a tag nor ends the run.
C19_OffsetsIgnoreSegment ==
    /\ pageOffset = (IF decoded = <<>> THEN 0
                     ELSE blockSize * decoded[Len(decoded)])
    /\ \A i \in TagIndices :
          /\ tags[i].blk = decoded[Len(decoded)]
          /\ tags[i].start >= blockSize * tags[i].blk
          /\ (i = 1 /\ tags[i].kind \in {"header", "leaf"}) =>
                tags[i].start = blockSize * tags[i].blk
    /\ pc = "tuples" => \E g \in GarbageBytes : tags = HeaderTagsUnverified(g)
    /\ "BLOCK_CHECKSUMS" \notin blockOptions => checksumBlock = -1
    /\ ("BLOCK_CHECKSUMS" \in blockOptions /\ HeaderTagged) =>
          checksumBlock = (segmentSize \div blockSize) * segmentNumber + currentBlock
    /\ "ChecksumFailure" \in reports =>
          /\ exitCode = 1
          /\ "BLOCK_CHECKSUMS" \in blockOptions
          /\ exited =>
                \/ \E r \in reports : r \in {"EmptyBlock", "ItemBeyondBlock"}
                \/ specialType \in UnsupportedTypes \ {"SPEC_SECT_SEQUENCE"}

\* C19 witness: the second block of a run on segment 2 has failed its
\* checksum, computed for block 9, and has its tuples tagged from offset
\* 256 on
C19_Witness ==
    /\ segmentNumber = 2
    /\ "ChecksumFailure" \in reports
    /\ checksumBlock = 9
    /\ pc = "next"
    /\ tags # <<>> /\ tags[1].start = 256
    /\ \E i \in TagIndices : tags[i].kind = "heap"

C21_RemainderSignalled ==
    (HeaderTagged
        /\ PdLower(buffer, 0) >= SizeOfPageHeaderData
        /\ (PdLower(buffer, 0) - SizeOfPageHeaderData) % SizeOfItemIdData # 0) =>
        (reports # {} /\ exitCode = 1)

\* the tags of item pointers are those of items 1, 2, ... in this order
ItemIdTagsInOrder ==
    \A i \in TagIndices :
        tags[i].kind = "itemid" => (i > 8 /\ tags[i].slot = i - 8)

\* C22: on a block that is not a meta page, the tag of item pointer i covers
\* the four bytes at page base + header size + 4 * (i - 1), the tags coming
\* in the order of i; an item pointer that is not among the bytes read gets
\* no tag; an item array cut short by the end of the bytes read is reported
\* and the block gets no tuple and no special-section tag.
C22_SlotTagsFollowHeader ==
    (HeaderTagged /\ ~IsBtreeMetaPage(buffer, 0, bytesToFormat, blockSize)) =>
        /\ ItemIdTagsInOrder
        /\ \A i \in TagIndices :
              tags[i].kind = "itemid" =>
                  /\ tags[i].start = PageBase(tags[i]) + PageGetItemId(tags[i].slot)
                  /\ tags[i].end = tags[i].start + SizeOfItemIdData - 1
                  /\ PageGetItemId(tags[i].slot) + SizeOfItemIdData <= bytesToFormat
        /\ DirectoryCut =>
              /\ "EndOfBlockInHeader" \in reports
              /\ \A i \in TagIndices :
                    tags[i].kind \notin {"heap", "index", "special"}

\* the names of the tags of a row tuple, in the order of the calls of
\* EmitXmlTupleTag; the third one is t_cid or t_xvac
HeapFieldOrder ==
    << "xmin", "xmax", "t_cid", "t_ctid->bi_hi", "t_ctid->bi_lo",
       "t_ctid->offsetNumber", "t_infomask2", "t_infomask", "t_hoff", "t_bits",
       "contents" >>

\* tag i is the first of the eleven tags of a row tuple
FirstOfRowTuple(i) ==
    /\ i \in TagIndices
    /\ tags[i].kind = "heap"
    /\ tags[i].name = "xmin"

\* the eleven tags from tag i on are those of one row tuple: the names in
\* order, the first at the tuple's offset, each next one starting one byte
\* after the end of the one before, the third one named after the HEAP_MOVED
\* bits of the tuple's t_infomask
RowTupleChained(i) ==
    /\ i + 10 <= Len(tags)
    /\ \A k \in 0..10 :
          /\ tags[i + k].kind = "heap"
          /\ tags[i + k].slot = tags[i].slot
          /\ k # 2 => tags[i + k].name = HeapFieldOrder[k + 1]
    /\ tags[i].start = PageBase(tags[i]) + SlotOffset(tags[i].slot)
    /\ \A k \in 1..10 : tags[i + k].start = tags[i + k - 1].end + 1
    /\ tags[i + 2].start = tags[i].start + 8
    /\ tags[i + 2].end = tags[i].start + 11
    /\ \E g \in GarbageBytes :
          tags[i + 2].name =
              (IF HeapMoved(Rd16(buffer, g, SlotOffset(tags[i].slot) + OffTInfomask))
               THEN "t_xvac" ELSE "t_cid")
    /\ tags[i + 10].end = tags[i].start + SlotLength(tags[i].slot) - 1

\* no tag of the row tuple that starts at tag i ends before the byte that
\* precedes its start, so that with RowTupleChained no two of them overlap
RowTupleForward(i) ==
    \A k \in 0..10 : tags[i + k].end + 1 >= tags[i + k].start

\* C23: on a page of rows every row tuple has its eleven tags in the order
\* xmin, xmax, t_cid or t_xvac, the three parts of t_ctid, t_infomask2,
\* t_infomask, t_hoff, t_bits, contents; the first tag starts at page base +
\* lp_off, every later one starts one byte after the one before ends, and
\* none overlaps another; the third tag covers bytes 8..11 of the tuple and
\* is t_xvac exactly when a HEAP_MOVED bit of t_infomask is set.
C23_RowFieldsContiguous ==
    (TuplesDone /\ RowPage) =>
        /\ \A s \in Slots : TagsOfSlot("heap", s) \in {0, 11}
        /\ \A i \in TagIndices :
              FirstOfRowTuple(i) => (RowTupleChained(i) /\ RowTupleForward(i))

\* the block in the buffer went through EmitXmlPageHeader, EmitXmlTuples and
\* EmitXmlSpecial (the latter only when it has a special section): it was
\* not skipped as a leaf, its item array was not cut, exit() was not called
BlockFullyDecoded ==
    /\ decoded # <<>>
    /\ decoded[Len(decoded)] = currentBlock
    /\ pc = "next"
    /\ ~exited
    /\ rc = 0
    /\ tags # <<>> /\ tags[1].kind # "leaf"

SpecialTagIndices == {i \in TagIndices : tags[i].kind = "special"}

\* the names of the tags of a b-tree special section with the bytes of the
\* section each covers
BtreeSpecialLayout ==
    << <<"btpo_prev", 0, 3>>, <<"btpo_next", 4, 7>>, <<"btpo.level", 8, 11>>,
       <<"btpo_flags", 12, 13>>, <<"btpo_cycleid", 14, 15>> >>

\* C24: a block classified as b-tree (meta page included) and decoded to its
\* end has exactly five special-section tags, which are the last tags of the
\* block: btpo_prev, btpo_next, btpo.level, btpo_flags and btpo_cycleid at
\* bytes 0..3, 4..7, 8..11, 12..13 and 14..15 of the special section, the
\* last one ending at the last byte of the block; a block classified as
\* having no special section has no special-section tag and no report about
\* its special section.
C24_BtreeSpecialFiveTags ==
    BlockFullyDecoded =>
        /\ specialType = "SPEC_SECT_INDEX_BTREE" =>
              /\ Len(tags) > 5
              /\ SpecialTagIndices = (Len(tags) - 4)..Len(tags)
              /\ \A k \in 1..5 :
                    LET t == tags[Len(tags) - 5 + k]
                    IN  /\ t.name = BtreeSpecialLayout[k][1]
                        /\ t.start = PageBase(t) + PdSpecial(buffer, 0)
                                         + BtreeSpecialLayout[k][2]
                        /\ t.end = PageBase(t) + PdSpecial(buffer, 0)
                                       + BtreeSpecialLayout[k][3]
              /\ tags[Len(tags)].end = blockSize * currentBlock + blockSize - 1
        /\ specialType = "SPEC_SECT_NONE" =>
              /\ SpecialTagIndices = {}
              /\ reports \cap {"InvalidSpecial", "UnsupportedSpecial"} = {}

\* C24 witness: a meta page and a page of index tuples, each with its five
\* special-section tags after the tags of the meta fields or of the tuples
C24_Witness ==
    /\ BlockFullyDecoded
    /\ specialType = "SPEC_SECT_INDEX_BTREE"
    /\ Cardinality(SpecialTagIndices) = 5
    /\ \E i \in TagIndices : tags[i].kind \in {"meta", "index"}
    /\ tags[Len(tags)].name = "btpo_cycleid"

\* the blocks handed to EmitXmlPage so far have ascending numbers
DecodedAscending ==
    \A i \in 1..(Len(decoded) - 1) : decoded[i] < decoded[i + 1]

\* with a range only blocks of the range are decoded; without one, block 0
\* is the first
DecodedInRange ==
    /\ "BLOCK_RANGE" \in blockOptions =>
          \A i \in 1..Len(decoded) : blockStart <= decoded[i] /\ decoded[i] <= blockEnd
    /\ ("BLOCK_RANGE" \notin blockOptions /\ decoded # <<>>) => decoded[1] = 0

\* once a read has returned no byte (contentsToDump = 0 with nothing to
\* format) or the last block of the range is decoded, nothing is read again
LoopOver ==
    \/ contentsToDump = 0
    \/ /\ "BLOCK_RANGE" \in blockOptions
       /\ decoded # <<>>
       /\ decoded[Len(decoded)] >= blockEnd

\* a block of which only a part was read has gone to EmitXmlPage once the
\* run is past the call
PartialBlockDecoded ==
    (bytesToFormat \in 1..(blockSize - 1) /\ pc \notin {"main", "read", "page"}) =>
        (decoded # <<>> /\ decoded[Len(decoded)] = currentBlock)

RunLoopInvariant ==
    /\ DecodedAscending
    /\ DecodedInRange
    /\ LoopOver => pc \notin {"read", "page"}
    /\ PartialBlockDecoded

\* a step of the run: the block size is set by main only; a read of no byte
\* decodes nothing and ends the loop; a read of a part of a block goes to
\* EmitXmlPage; after the end of the loop nothing more is decoded
RunLoopStep ==
    /\ pc # "main" => blockSize' = blockSize
    /\ (pc = "read" /\ bytesToFormat' = 0) =>
          (contentsToDump' = 0 /\ decoded' = decoded /\ pc' = "next")
    /\ (pc = "read" /\ bytesToFormat' \in 1..(blockSize - 1)) => pc' = "page"
    /\ pc = "page" => decoded' = Append(decoded, currentBlock)
    /\ pc # "page" => decoded' = decoded
    /\ LoopOver => LoopOver'

\* C25: blocks are decoded one at a time in ascending order of block number,
\* each at most once; with a range only blocks from blockStart to blockEnd
\* are decoded, without one the first decoded block is block 0; the block
\* size is not changed once main has set it; the loop ends at the first read
\* that returns no byte or after the block blockEnd, and the run comes to its
\* end; a last block of which only a part was read is handed to EmitXmlPage
\* before that.
C25_RunLoop ==
    /\ []RunLoopInvariant
    /\ [][RunLoopStep]_vars
    /\ (pc = "page") ~> (decoded # <<>> /\ decoded[Len(decoded)] = currentBlock)
    /\ <>(pc = "done")

\* C25 witness: a run over the range 0..1 has decoded blocks 0 and 1, block
\* 1 from a partial read, and has come to its end
C25_Witness ==
    /\ pc = "done"
    /\ ~exited
    /\ "BLOCK_RANGE" \in blockOptions /\ blockEnd = 1
    /\ decoded = <<0, 1>>
    /\ bytesToFormat \in 1..(blockSize - 1)

\* the buffer with every byte that the last fread() did not write replaced
\* by fill
ReadBytesOnly(fill) ==
    [k \in 1..Len(buffer) |-> IF k <= bytesToFormat THEN buffer[k] ELSE fill]

\* the tags EmitXmlPage prints for the block in hand when the buffer is buf:
\* the leaf tag of a skipped page, or the tags of EmitXmlPageHeader, then,
\* unless the item array is cut, those of EmitXmlTuples, then, unless exit()
\* was called or the page has no special section, those of EmitXmlSpecial
BlockTagsFrom(buf, g) ==
    LET c == Ctx(buf, g, currentBlock, PageOffsetOf(blockSize, currentBlock),
                 bytesToFormat, blockSize)
        st == GetSpecialSectionType(buf, g, bytesToFormat, blockSize).rc
        lvl == IF st = "SPEC_SECT_INDEX_BTREE" THEN BtreeLevel(c) ELSE UINT_MAX
        h == EmitXmlPageHeader(c, lvl, FALSE, TRUE, 0)
        t == EmitXmlTuples(c, st)
    IN  IF SkipAsLeaf(c, st, "BLOCK_SKIP_LEAF" \in blockOptions)
        THEN << LeafPageTag(c, lvl) >>
        ELSE IF h.rc = EOF_ENCOUNTERED THEN h.tags
        ELSE IF t.exit \/ st = "SPEC_SECT_NONE" THEN h.tags \o t.tags
        ELSE h.tags \o t.tags \o EmitXmlSpecial(c, st, lvl).tags

\* EmitXmlPage is through with the block in the buffer
BlockDone ==
    /\ decoded # <<>>
    /\ decoded[Len(decoded)] = currentBlock
    /\ pc \in {"next", "done"}

\* C26: the tags of a block of which only a part was read are those the
\* decoders print from the bytes read, whatever the rest of the buffer
\* holds (the bytes of the block read before, or what malloc() left there).
C26_TagsFromBytesReadOnly ==
    (BlockDone /\ bytesToFormat < blockSize) =>
        \A fill \in GarbageBytes : \E g \in GarbageBytes :
            tags = Stamp(BlockTagsFrom(ReadBytesOnly(fill), g), nEmitted)

====
